---------------------------- MODULE Spec2Model ----------------------------
(***************************************************************************)
(* A state-machine model of the SuiMessenger client runtime:               *)
(*   - the Walrus content store client        (src/src/utils/walrus.ts)    *)
(*   - the SEAL session hook and its driver   (useSealSession.ts, Chat.tsx)*)
(*   - the optimistic / authoritative timeline (Chat.tsx)                  *)
(*   - the SEAL encrypt / decrypt pipeline    (utils/crypto.ts)            *)
(*   - the registry lookup key                (Chat.tsx, fetchChatId)      *)
(* Each component has its own specification (SpecStore, SpecSession,       *)
(* SpecChat, SpecCrypto, SpecKey) over the one set of variables; a         *)
(* specification leaves the other components' variables unchanged.         *)
(***************************************************************************)
EXTENDS Integers, Sequences, FiniteSets, TLC

VARIABLES
    \* ---- content store (walrus.ts)
    walrusCache,    \* localStorage entries walrus_cache_<blobId>
    gets,           \* the downloadFromWalrus calls, one record per call
    put,            \* the last uploadToWalrus call and what it returned
    \* ---- registry lookup key (Chat.tsx, fetchChatId)
    keyIn,          \* the two addresses, as typed / as reported by the wallet
    keyOut,         \* the key each side derives: keyOut[i] with keyIn[i] local
    \* ---- encrypt / decrypt pipeline (crypto.ts)
    encIn,          \* the arguments of encryptMessage: content and scopeId
    encOut,         \* what encryptMessage returned (encryptedContent), if it has
    decOut,         \* what decryptMessage returned or threw, per role
    \* ---- SEAL session (useSealSession.ts and its driver in Chat.tsx)
    account,            \* useCurrentAccount(): the connected address or none
    storedSession,      \* localStorage seal_session_data
    ttlPref,            \* localStorage seal_session_ttl_preference (minutes), or NoPref
    sessionKey,         \* hook state
    isReady,            \* hook state
    isLoading,          \* hook state
    error,              \* hook state
    isCreatingSession,  \* Chat state
    userEndedSession,   \* Chat state
    hasHadSession,      \* Chat state
    showTTLSelector,    \* Chat state
    showSealModal,      \* Chat state
    sealError,          \* Chat state
    attemptRef,         \* attemptRef.current
    pending,            \* the createSealSession calls awaiting their outcome
    reloadTimer,        \* setTimeout(window.location.reload, 2000) is armed
    lateTrigger,        \* a trigger was handled while a creation was pending
    now,                \* Date.now()
    fx,                 \* the effects due after the last commit
    \* ---- optimistic / authoritative timeline (Chat.tsx)
    selectedContact,    \* Chat state
    optimisticMessages, \* Chat state: the speculative entries
    sends,              \* the handleSendMessage calls, one record per call
    ledger,             \* the MessageSent events the chain holds, oldest first
    events,             \* the last poll's result, newest first
    chatFx,             \* the timeline effects due after the last commit
    \* ---- decryption cache (Chat.tsx)
    decryptedMessages,  \* Chat state: what is shown for a message id
    decrypts,           \* the downloads / decryptions / file reads in flight
    decryptSeen,        \* the dependencies of the Decrypt effect at its last run
    \* ---- scope resolution and send pipeline (Chat.tsx)
    chatIds,            \* Chat state: contact -> chat id
    isCreatingChat,     \* Chat state
    registry,           \* the chain's registry: the pairs that have a chat
    walletTxs,          \* the transactions handed to the wallet, in order
    autoCreate,         \* the auto-create effect's check, then createChatForContact
    autoCreateSeen,     \* the dependencies of the auto-create effect at its last run
    pipe,               \* handleSendMessage from its try block on
    uploaded,           \* what Walrus holds: blob id -> ciphertext
    \* ---- the view of the conversation (Chat.tsx)
    messageLimit,       \* Chat state: the pagination window
    isLoadingMore,      \* Chat state
    \* ---- read receipts (Chat.tsx)
    readMessageIds,     \* Chat state: the ids shown as read
    readEvents,         \* the last poll of the MessageReadSimple events
    chainRead,          \* the message ids the chain has marked read
    owned,              \* how many messages of the contact the account owns
    markOp,             \* the markMessagesAsRead call awaiting the wallet
    \* ---- scope-creation events (Chat.tsx)
    chatEvents          \* the last poll of the ChatCreated events

storeVars == <<walrusCache, gets, put>>
keyVars == <<keyIn, keyOut>>
cryptoVars == <<encIn, encOut, decOut>>
\* What a render of the hook and of Chat shows: a change of it is a commit.
rendered == <<account, sessionKey, isReady, isLoading, error, isCreatingSession,
              userEndedSession, hasHadSession, showTTLSelector, showSealModal,
              sealError>>
sessionVars == <<rendered, storedSession, ttlPref, attemptRef, pending,
                 reloadTimer, lateTrigger, now, fx>>

\* The session state apart from the account and the clock.
sessionRest == <<storedSession, ttlPref, sessionKey, isReady, isLoading, error,
                 isCreatingSession, userEndedSession, hasHadSession,
                 showTTLSelector, showSealModal, sealError, attemptRef, pending,
                 reloadTimer, lateTrigger, fx>>
chatVars == <<selectedContact, optimisticMessages, sends, ledger, events, chatFx>>
cacheVars == <<decryptedMessages, decrypts, decryptSeen>>
scopeRest == <<isCreatingChat, registry, walletTxs, autoCreate, autoCreateSeen, pipe,
               uploaded>>
scopeVars == <<chatIds, scopeRest>>
pageVars == <<messageLimit, isLoadingMore>>
readVars == <<readMessageIds, readEvents, chainRead, owned, markOp>>
viewVars == <<pageVars, readVars, chatEvents>>

vars == <<storeVars, keyVars, cryptoVars, sessionVars, chatVars, cacheVars, scopeVars,
          viewVars>>

\* What each component's actions leave alone.
notStore == <<keyVars, cryptoVars, sessionVars, chatVars, cacheVars, scopeVars,
    viewVars>>
notKey == <<storeVars, cryptoVars, sessionVars, chatVars, cacheVars, scopeVars,
    viewVars>>
notCrypto == <<storeVars, keyVars, sessionVars, chatVars, cacheVars, scopeVars,
    viewVars>>
notSession == <<storeVars, keyVars, cryptoVars, chatVars, cacheVars, scopeVars,
    viewVars>>
\* The timeline's actions write decryptedMessages and chatIds themselves.
notChat == <<storeVars, keyVars, cryptoVars, sessionRest, decryptSeen, scopeRest>>

(***************************************************************************)
(*                       CONTENT STORE  (walrus.ts)                        *)
(***************************************************************************)

\* config.aggregators: the read endpoints, in priority order.
NumAggregators == 4
Aggregators == 1..NumAggregators

\* The size bound of the local cache (content.length <= 500000).
CacheLimit == 500000

\* Contents the endpoints can serve / the client can upload, as opaque
\* strings with a length.  "" is the empty string, "XL" a payload above the
\* cache bound.
Contents == {"", "x", "y", "XL"}
ContentLen(c) ==
    CASE c = ""   -> 0
      [] c = "x"  -> 1
      [] c = "y"  -> 1
      [] c = "XL" -> CacheLimit + 1

BlobIds == {"b1", "b2"}
GetCalls == {"g1", "g2"}

\* localStorage.getItem of a key that is not set.
NoItem == "<null>"
\* An unset variable (let lastError;).
Undefined == "<undefined>"

\* What one aggregator can answer to GET /v1/blobs/<id>.
\*   ok       response.ok and the body was read
\*   404      a clean not-found status
\*   status   any other non-OK status
\*   throw    fetch (or reading the body) threw: network error, abort
Outcomes == {"ok", "404", "status", "throw"}

\* The error value thrown by the fetch to aggregator k.
FetchError(k) == <<"fetch-error", k>>
ContentNotFoundError == <<"Error", "Content not found">>
AllFailedError == <<"Error", "All aggregators failed">>

IdleGet ==
    [pc |-> "idle", blobId |-> NoItem, idx |-> 0, allNotFound |-> TRUE,
     lastError |-> Undefined, result |-> NoItem, error |-> Undefined,
     invoked |-> {}, failed |-> {}, servedAt |-> 0, served |-> NoItem,
     unclean |-> FALSE]

\* `if (cached)`: a JavaScript string is truthy iff it is not empty.
Truthy(item) == item # NoItem /\ item # ""

\* The write-through of a downloaded or uploaded content: only if small
\* enough, and only if localStorage.setItem accepts it (a throw of setItem,
\* as on a full storage, is caught and the call goes on).
CacheWriteUnbounded(cache, blobId, content, accepted) ==
    IF accepted THEN [cache EXCEPT ![blobId] = content] ELSE cache
CacheWrite(cache, blobId, content, accepted) ==
    IF ContentLen(content) <= CacheLimit /\ accepted
    THEN [cache EXCEPT ![blobId] = content]
    ELSE cache

NoPut == [pc |-> "idle", content |-> NoItem, blobId |-> NoItem, accepted |-> TRUE]

\* downloadFromWalrus, up to its first await: the cache look-up, and on a miss
\* the fetch to the first aggregator.
DownloadStart(g, b) ==
    /\ gets[g].pc = "idle"
    /\ LET cached == walrusCache[b] IN
       IF Truthy(cached)
       THEN gets' = [gets EXCEPT ![g] =
                [IdleGet EXCEPT !.pc = "returned", !.blobId = b, !.result = cached]]
       ELSE gets' = [gets EXCEPT ![g] =
                [IdleGet EXCEPT !.pc = "fetching", !.blobId = b, !.idx = 1,
                                !.invoked = {1}]]
    /\ UNCHANGED <<walrusCache, put>>
    /\ UNCHANGED notStore

\* The loop's step after a failed aggregator: the next aggregator of the list,
\* or the end of the loop.
NextAggregatorSkipping(k) == IF k + 1 < NumAggregators THEN k + 2 ELSE 0
NextAggregator(k) == IF k < NumAggregators THEN k + 1 ELSE 0

\* The aggregators a call has fetched from once the loop has moved on to
\* aggregator nxt: the loop awaits each fetch before the next.
ContactedAllAtOnce(invoked, nxt) == invoked \cup nxt..NumAggregators
Contacted(invoked, nxt) == invoked \cup {nxt}

\* The flag after aggregator k answered with outcome o.
AllNotFoundAfterThrowOnly(flag, o) == IF o = "throw" THEN FALSE ELSE flag
AllNotFoundAfter(flag, o) ==
    IF o = "404" THEN flag ELSE FALSE

\* What downloadFromWalrus throws after the loop.
FinalError(flag, last) ==
    IF flag THEN ContentNotFoundError
    ELSE IF last # Undefined THEN last ELSE AllFailedError

\* downloadFromWalrus, the continuation after the answer of aggregator idx.
DownloadResponse(g, o, c) ==
    /\ gets[g].pc = "fetching"
    /\ LET r == gets[g]
           k == r.idx
       IN
       IF o = "ok"
       THEN /\ \E accepted \in BOOLEAN :
                   walrusCache' = CacheWrite(walrusCache, r.blobId, c, accepted)
            /\ gets' = [gets EXCEPT ![g] =
                    [r EXCEPT !.pc = "returned", !.result = c,
                              !.servedAt = k, !.served = c]]
       ELSE /\ c = ""
            /\ LET flag == AllNotFoundAfter(r.allNotFound, o)
                   last == IF o = "throw" THEN FetchError(k) ELSE r.lastError
                   nxt  == NextAggregator(k)
                   r2   == [r EXCEPT !.allNotFound = flag, !.lastError = last,
                                     !.failed = r.failed \cup {k},
                                     !.unclean = (r.unclean \/ o # "404")]
               IN
               IF nxt # 0
               THEN gets' = [gets EXCEPT ![g] =
                        [r2 EXCEPT !.idx = nxt, !.invoked = Contacted(r.invoked, nxt)]]
               ELSE gets' = [gets EXCEPT ![g] =
                        [r2 EXCEPT !.pc = "thrown", !.error = FinalError(flag, last)]]
            /\ UNCHANGED walrusCache
    /\ UNCHANGED <<put, notStore>>

\* uploadToWalrus, the continuation after the publisher's answer: on success
\* the blob id is returned and the content is cached if small enough.
UploadToWalrus(c, b, ok) ==
    /\ \E accepted \in BOOLEAN :
           /\ walrusCache' = IF ok THEN CacheWrite(walrusCache, b, c, accepted)
                             ELSE walrusCache
           /\ put' = IF ok THEN [pc |-> "returned", content |-> c, blobId |-> b,
                                 accepted |-> accepted]
                     ELSE [NoPut EXCEPT !.pc = "thrown"]
    /\ UNCHANGED <<gets, notStore>>

IdleStore ==
    /\ walrusCache = [b \in BlobIds |-> NoItem]
    /\ gets = [g \in GetCalls |-> IdleGet]
    /\ put = NoPut

(***************************************************************************)
(*                REGISTRY LOOKUP KEY  (Chat.tsx, fetchChatId)             *)
(***************************************************************************)

\* Address = bcs.bytes(32): an identity is 32 bytes.
AddrBytes == 32
\* The longest address text the model types in, in hex digits after "0x".
MaxHexLen == 2

HexChars == <<"0", "1", "2", "3", "4", "5", "6", "7", "8", "9",
              "a", "b", "c", "d", "e", "f">>
HexAlphabet == {"0", "1", "a", "A"}

RECURSIVE Zeros(_)
Zeros(n) == IF n <= 0 THEN <<>> ELSE <<"0">> \o Zeros(n - 1)

\* Address texts: "0x" and 1..MaxHexLen digits (a short form, which
\* normalisation pads on the left), and the same digits followed by zeros to
\* the full length (so that the high bytes differ).
ShortDigits == UNION {[1..n -> HexAlphabet] : n \in 1..MaxHexLen}
AddressTexts ==
    {<<"0", "x">> \o d : d \in ShortDigits}
        \cup {<<"0", "x">> \o d \o Zeros(2 * AddrBytes - Len(d)) : d \in ShortDigits}

\* String.prototype.toLowerCase on the characters an address can hold.
LowerChar(ch) ==
    CASE ch = "A" -> "a" [] ch = "B" -> "b" [] ch = "C" -> "c"
      [] ch = "D" -> "d" [] ch = "E" -> "e" [] ch = "F" -> "f"
      [] ch = "X" -> "x" [] OTHER -> ch
ToLowerCase(str) == [i \in 1..Len(str) |-> LowerChar(str[i])]

StartsWith0x(str) == Len(str) >= 2 /\ str[1] = "0" /\ str[2] = "x"
Strip0x(str) == IF StartsWith0x(str) THEN SubSeq(str, 3, Len(str)) ELSE str

\* normalizeSuiAddress: lower case, no "0x", padded on the left with zeros to
\* 64 digits, "0x" in front.
normalizeSuiAddress(value) ==
    LET address == Strip0x(ToLowerCase(value))
    IN <<"0", "x">> \o Zeros(2 * AddrBytes - Len(address)) \o address

\* parseInt(digit, 16)
HexVal(ch) ==
    LET l == LowerChar(ch)
    IN (CHOOSE i \in 1..16 : HexChars[i] = l) - 1

\* fromHex: no "0x", a leading zero if the length is odd, two digits a byte.
fromHex(hexStr) ==
    LET normalized == Strip0x(hexStr)
        padded == IF Len(normalized) % 2 = 0 THEN normalized
                  ELSE <<"0">> \o normalized
    IN [i \in 1..(Len(padded) \div 2) |->
            16 * HexVal(padded[2 * i - 1]) + HexVal(padded[2 * i])]

\* The first index at which the byte arrays differ, 0 if there is none.
FirstDiff(b1, b2) ==
    LET D == {i \in 1..Len(b1) : i <= Len(b2) /\ b1[i] # b2[i]}
    IN IF D = {} THEN 0 ELSE CHOOSE i \in D : \A j \in D : i <= j

\* "Sort addresses byte-wise": the loop over b1 that breaks at the first
\* differing byte; sorted stays [addr1, addr2] when no byte differs.
SortedPairLocalFirst(addr1, addr2) == <<addr1, addr2>>
SortedPair(addr1, addr2) ==
    LET b1 == fromHex(addr1)
        b2 == fromHex(addr2)
        i  == FirstDiff(b1, b2)
    IN IF i = 0 THEN <<addr1, addr2>>
       ELSE IF b1[i] < b2[i] THEN <<addr1, addr2>>
       ELSE <<addr2, addr1>>

\* ParticipantsKey.serialize(sorted).toBytes(): a BCS vector<address>, the
\* length as ULEB128 and then the 32 bytes of each address.
ParticipantsKeyBytes(sorted) ==
    <<Len(sorted)>> \o fromHex(sorted[1]) \o fromHex(sorted[2])

\* The key fetchChatId looks up, for the local account and a contact: the
\* sorted pair (the vector<address> form) and its bytes (the vector<u8> form).
LookupKey(accountAddress, contactAddress) ==
    LET addr1 == normalizeSuiAddress(accountAddress)
        addr2 == normalizeSuiAddress(contactAddress)
        sorted == SortedPair(addr1, addr2)
    IN [sorted |-> sorted, keyArray |-> ParticipantsKeyBytes(sorted)]

NoKey == [sorted |-> <<>>, keyArray |-> <<>>]

IdleKey ==
    /\ keyIn = <<>>
    /\ keyOut = <<NoKey, NoKey>>

InitKey ==
    /\ keyIn \in AddressTexts \X AddressTexts
    /\ keyOut = <<NoKey, NoKey>>

\* fetchChatId run by participant i (keyIn[i] is account.address, the other
\* address is the contact), up to the key it queries the table with.
FetchChatIdKey(i) ==
    /\ keyIn # <<>>
    /\ keyOut[i] = NoKey
    /\ keyOut' = [keyOut EXCEPT ![i] = LookupKey(keyIn[i], keyIn[3 - i])]
    /\ UNCHANGED <<keyIn, notKey>>

(***************************************************************************)
(*            ENCRYPT / DECRYPT PIPELINE  (crypto.ts, part_002)            *)
(***************************************************************************)

\* The longest plaintext the model encrypts, in UTF-16 code units.
MaxTextLen == 2
\* blake2b(data, { dkLen: 32 })
DigestLen == 32
\* SEAL_THRESHOLD = parseInt(VITE_SEAL_THRESHOLD || '2')
SealThreshold == 2

\* A JavaScript string is a sequence of UTF-16 code units: "a", "é", the byte
\* order mark U+FEFF, and the two halves of U+1F600 (a high and a low
\* surrogate, which may also occur alone).
CodeUnits == {97, 233, 65279, 55357, 56832}
Plaintexts == UNION {[1..n -> CodeUnits] : n \in 0..MaxTextLen}
ScopeIds == {<<"0", "x", "c", "1">>, <<"0", "x", "c", "2">>}

\* The scalar values of a string (what TextEncoder encodes): a surrogate pair
\* is one code point, a lone surrogate becomes U+FFFD.
RECURSIVE ToCodePoints(_)
ToCodePoints(str) ==
    IF str = <<>> THEN <<>>
    ELSE IF str[1] >= 55296 /\ str[1] <= 56319 /\ Len(str) >= 2
               /\ str[2] >= 56320 /\ str[2] <= 57343
         THEN <<65536 + ((str[1] - 55296) * 1024) + (str[2] - 56320)>>
                  \o ToCodePoints(SubSeq(str, 3, Len(str)))
    ELSE IF str[1] >= 55296 /\ str[1] <= 57343
         THEN <<65533>> \o ToCodePoints(Tail(str))
    ELSE <<str[1]>> \o ToCodePoints(Tail(str))

Utf8Bytes(cp) ==
    IF cp < 128 THEN <<cp>>
    ELSE IF cp < 2048 THEN <<192 + (cp \div 64), 128 + (cp % 64)>>
    ELSE IF cp < 65536
         THEN <<224 + (cp \div 4096), 128 + ((cp \div 64) % 64), 128 + (cp % 64)>>
    ELSE <<240 + (cp \div 262144), 128 + ((cp \div 4096) % 64),
           128 + ((cp \div 64) % 64), 128 + (cp % 64)>>

RECURSIVE Utf8Encode(_)
Utf8Encode(cps) ==
    IF cps = <<>> THEN <<>> ELSE Utf8Bytes(cps[1]) \o Utf8Encode(Tail(cps))

\* new TextEncoder().encode(content)
TextEncode(content) == Utf8Encode(ToCodePoints(content))

\* The UTF-8 decoder: code points of a byte sequence, U+FFFD for a byte that
\* starts no complete sequence.
RECURSIVE Utf8Decode(_)
Utf8Decode(bytes) ==
    LET n == Len(bytes)
        b == bytes[1]
        c(i) == bytes[i] - 128
        cont(i) == i <= n /\ bytes[i] >= 128 /\ bytes[i] < 192
    IN IF bytes = <<>> THEN <<>>
       ELSE IF b < 128 THEN <<b>> \o Utf8Decode(Tail(bytes))
       ELSE IF b >= 194 /\ b < 224 /\ cont(2)
            THEN <<((b - 192) * 64) + c(2)>> \o Utf8Decode(SubSeq(bytes, 3, n))
       ELSE IF b >= 224 /\ b < 240 /\ cont(2) /\ cont(3)
            THEN <<((b - 224) * 4096) + (c(2) * 64) + c(3)>>
                     \o Utf8Decode(SubSeq(bytes, 4, n))
       ELSE IF b >= 240 /\ b < 245 /\ cont(2) /\ cont(3) /\ cont(4)
            THEN <<((b - 240) * 262144) + (c(2) * 4096) + (c(3) * 64) + c(4)>>
                     \o Utf8Decode(SubSeq(bytes, 5, n))
       ELSE <<65533>> \o Utf8Decode(Tail(bytes))

\* The code units of a sequence of code points.
RECURSIVE FromCodePoints(_)
FromCodePoints(cps) ==
    IF cps = <<>> THEN <<>>
    ELSE IF cps[1] >= 65536
         THEN <<55296 + ((cps[1] - 65536) \div 1024), 56320 + ((cps[1] - 65536) % 1024)>>
                  \o FromCodePoints(Tail(cps))
    ELSE <<cps[1]>> \o FromCodePoints(Tail(cps))

\* new TextDecoder().decode(bytes): UTF-8, with the default ignoreBOM = false,
\* under which a leading byte order mark is consumed and not part of the text.
TextDecode(bytes) ==
    LET cps == Utf8Decode(bytes)
    IN FromCodePoints(IF cps # <<>> /\ cps[1] = 65279 THEN Tail(cps) ELSE cps)

\* toHEX: two lower-case digits a byte.  fromHEX is fromHex above.
toHEX(bytes) ==
    [i \in 1..(2 * Len(bytes)) |->
        IF i % 2 = 1 THEN HexChars[(bytes[(i + 1) \div 2] \div 16) + 1]
        ELSE HexChars[(bytes[i \div 2] % 16) + 1]]
fromHEX(hexStr) == fromHex(hexStr)

\* blake2b stands outside the repository: a deterministic DigestLen-byte
\* function of the bytes takes its place.
RECURSIVE ByteSum(_)
ByteSum(bytes) ==
    IF bytes = <<>> THEN 0 ELSE (bytes[1] + (31 * ByteSum(Tail(bytes)))) % 65521
blake2b(data) == [i \in 1..DigestLen |-> ((ByteSum(data) * i) + Len(data)) % 256]

calculateContentHash(content) == blake2b(TextEncode(content))

\* The Seal client stands outside the repository.  Its encrypted object is
\* modelled as the threshold, the identity the key is derived for (length and
\* bytes) and the data under a byte-wise involution; decrypt gives the data
\* back when the session is valid, the key servers approve the transaction
\* and the transaction names the identity of the object.
SealEncrypt(threshold, id, data) ==
    <<threshold, Len(fromHEX(id))>> \o fromHEX(id) \o [i \in 1..Len(data) |-> 255 - data[i]]
SealDecrypt(object, sessionValid, approved, txId) ==
    LET idLen == object[2]
        id == SubSeq(object, 3, 2 + idLen)
        body == SubSeq(object, 3 + idLen, Len(object))
    IN IF ~sessionValid
       THEN [ok |-> FALSE, error |-> "ExpiredSessionKeyError", bytes |-> <<>>]
       ELSE IF ~approved \/ id # txId
       THEN [ok |-> FALSE, error |-> "NoAccessError", bytes |-> <<>>]
       ELSE [ok |-> TRUE, error |-> "", bytes |-> [i \in 1..Len(body) |-> 255 - body[i]]]

\* import.meta.env.VITE_PACKAGE_ID: the address of the messenger package.
PACKAGE_ID == <<"0", "x", "a", "1">>

\* The argument of client.encrypt in encryptMessage.  normalizedScopeId is
\* computed and logged, and is no part of it.
EncryptRequest(content, scopeId, plaintextHash) ==
    [threshold |-> SealThreshold, packageId |-> normalizeSuiAddress(PACKAGE_ID),
     id |-> toHEX(plaintextHash), data |-> TextEncode(content)]

\* encryptMessage(content, scopeId, plaintextHash).encryptedContent
encryptMessage(content, scopeId, plaintextHash) ==
    LET request == EncryptRequest(content, scopeId, plaintextHash)
    IN toHEX(SealEncrypt(request.threshold, request.id, request.data))

\* decryptMessage(encryptedContent, contentHash, chatId, sessionKey, isSender):
\* the text, or the error it throws.  contentHash is bytes or a hex string.
decryptMessage(encryptedContent, contentHash, hashIsString, sessionValid, approved) ==
    LET hashBytes == IF hashIsString THEN fromHEX(contentHash) ELSE contentHash
        r == SealDecrypt(fromHEX(encryptedContent), sessionValid, approved, hashBytes)
    IN IF r.ok THEN [ok |-> TRUE, text |-> TextDecode(r.bytes), error |-> <<>>]
       ELSE [ok |-> FALSE, text |-> <<>>,
             error |-> <<"Failed to decrypt message: ", r.error>>]

NoInput == [content |-> <<>>, scopeId |-> <<>>]
NoResult == [done |-> FALSE, valid |-> FALSE, returned |-> [ok |-> FALSE, text |-> <<>>, error |-> <<>>]]
Roles == {"sender", "receiver"}

IdleCrypto ==
    /\ encIn = NoInput
    /\ encOut = <<>>
    /\ decOut = [r \in Roles |-> NoResult]

InitCrypto ==
    /\ encIn \in [content : Plaintexts, scopeId : ScopeIds]
    /\ encOut = <<>>
    /\ decOut = [r \in Roles |-> NoResult]

EncryptMessage ==
    /\ encIn # NoInput
    /\ encOut = <<>>
    /\ encOut' = encryptMessage(encIn.content, encIn.scopeId,
                                calculateContentHash(encIn.content))
    /\ UNCHANGED <<encIn, decOut, notCrypto>>

\* One participant decrypts what was encrypted, with the hash of the
\* plaintext; the session may have expired and the key servers may refuse.
DecryptMessage(role, hashIsString, sessionValid, approved) ==
    /\ encOut # <<>>
    /\ ~decOut[role].done
    /\ LET h == calculateContentHash(encIn.content)
       IN decOut' = [decOut EXCEPT ![role] =
              [done |-> TRUE, valid |-> sessionValid /\ approved,
               returned |-> decryptMessage(encOut, IF hashIsString THEN toHEX(h) ELSE h,
                                           hashIsString, sessionValid, approved)]]
    /\ UNCHANGED <<encIn, encOut, notCrypto>>

NextCrypto ==
    \/ EncryptMessage
    \/ \E role \in Roles, hashIsString, sessionValid, approved \in BOOLEAN :
           DecryptMessage(role, hashIsString, sessionValid, approved)

(***************************************************************************)
(*          SEAL SESSION  (useSealSession.ts, Chat.tsx initSession)        *)
(***************************************************************************)

\* The clock runs from 0 to MaxNow; a session lives SessionTtl ticks
\* (ttlMin: SEAL_SESSION_TTL_MINUTES, on the clock's scale).
MaxNow == 3
SessionTtl == 2

Accounts == {"A", "B"}

\* SEAL_SESSION_TTL_MINUTES, the build's constant.
SEAL_SESSION_TTL_MINUTES == SessionTtl

\* localStorage seal_session_ttl_preference: nothing stored (getSessionTTL's
\* !stored), or the minutes of one of the TTL_OPTIONS; one option is the
\* build's constant, another is not.
NoPref == 0
TTL_OPTIONS == {SEAL_SESSION_TTL_MINUTES, SEAL_SESSION_TTL_MINUTES + 1}

\* getCurrentTTLOption() || localStorage.getItem('seal_session_ttl_preference')
hasSessionTTLPreferenceAlways(pref) == TRUE
hasSessionTTLPreference(pref) == pref # NoPref

\* What localStorage holds under seal_session_data: nothing, the JSON of an
\* exported session, text that is not JSON ("malformed"), JSON that is no
\* object ("null"), or an object SessionKey.import rejects ("invalid").
\* The in-memory SessionKey has the same shape, nothing being null.
NoToken == [kind |-> "none", address |-> NoItem, creationTimeMs |-> 0, ttlMin |-> 0]
Token(a, t) ==
    [kind |-> "token", address |-> a, creationTimeMs |-> t, ttlMin |-> SEAL_SESSION_TTL_MINUTES]
BadRecord(k) == [NoToken EXCEPT !.kind = k]
StoredAtStart ==
    {NoToken, BadRecord("malformed"), BadRecord("null"), BadRecord("invalid")}
        \cup {Token(a, 0) : a \in Accounts}

\* SessionKey.isExpired()
isExpiredNever(key, t) == FALSE
isExpired(key, t) == key.creationTimeMs + key.ttlMin < t

\* loadSession, run for the account of the render it closes over, on the
\* hook's state cur = [stored, key, ready, err]; the result is the state its
\* setters and localStorage calls leave.  JSON.parse and the reads of the
\* parsed value sit in the outer try, whose catch sets only error and
\* isReady; SessionKey.import and isExpired sit in the inner try.  import may
\* itself throw on an expired session (importThrows).
LoadSessionKeepingExpired(acct, cur, importThrows) ==
    IF acct = NoItem \/ cur.stored.kind # "token"
    THEN [cur EXCEPT !.key = NoToken, !.ready = FALSE]
    ELSE [cur EXCEPT !.key = cur.stored, !.ready = TRUE, !.err = ""]
LoadSession(acct, cur, importThrows) ==
    IF acct = NoItem THEN [cur EXCEPT !.key = NoToken, !.ready = FALSE]
    ELSE CASE cur.stored.kind = "none" ->
                 [cur EXCEPT !.key = NoToken, !.ready = FALSE, !.err = ""]
           [] cur.stored.kind \in {"malformed", "null"} ->
                 [cur EXCEPT !.ready = FALSE, !.err = "parse"]
           [] cur.stored.kind = "invalid" ->
                 [stored |-> NoToken, key |-> NoToken, ready |-> FALSE, err |-> ""]
           [] cur.stored.kind = "token" ->
                 IF isExpired(cur.stored, now)
                 THEN [stored |-> NoToken, key |-> NoToken, ready |-> FALSE,
                       err |-> IF importThrows THEN "" ELSE "expired"]
                 ELSE [cur EXCEPT !.key = cur.stored, !.ready = TRUE, !.err = ""]

\* refresh(): removeItem, setSessionKey(null), setIsReady(false),
\* setError(null), then loadSession() over the emptied storage.
refreshKeepingStorage(acct, cur) ==
    LoadSession(acct, [cur EXCEPT !.key = NoToken, !.ready = FALSE, !.err = ""], FALSE)
refresh(acct, cur) ==
    LoadSession(acct, [stored |-> NoToken, key |-> NoToken, ready |-> FALSE, err |-> ""],
                FALSE)

HookState == [stored |-> storedSession, key |-> sessionKey, ready |-> isReady, err |-> error]

\* The effects a commit schedules: the hook's effect on [account?.address],
\* the effect on [isSessionReady], and initSession, whose dependency
\* saveSession is a new function on every render.  No change, no render.
Schedule ==
    fx' = (IF account' # account THEN {"load"} ELSE {})
              \cup (IF isReady' # isReady THEN {"had"} ELSE {})
              \cup (IF rendered' # rendered THEN {"init"} ELSE {})

MountEffects == {"load", "ttl", "had", "init"}

\* Is a creation for the connected account awaiting its outcome?
PendingHere == \E i \in 1..Len(pending) : pending[i].address = account

\* The guard of initSession, on the values of the render.
InitSessionGuard ==
    /\ account # NoItem /\ ~isLoading /\ sessionKey = NoToken
    /\ ~isCreatingSession /\ isReady = FALSE
    /\ ~hasHadSession /\ ~userEndedSession

\* The effects of one commit, in the order of their declaration, each on the
\* values of that render; refs and localStorage are read as they are.
RunEffects(importThrows) ==
    /\ fx # {}
    /\ LET loaded == IF "load" \in fx
                     THEN LoadSession(account, HookState, importThrows)
                     ELSE HookState
           attempt == "init" \in fx /\ InitSessionGuard /\ attemptRef # account
           select == attempt /\ ~hasSessionTTLPreference(ttlPref)
           create == attempt /\ hasSessionTTLPreference(ttlPref)
       IN /\ storedSession' = loaded.stored
          /\ sessionKey' = loaded.key
          /\ isReady' = loaded.ready
          /\ error' = loaded.err
          /\ isLoading' = IF "load" \in fx THEN FALSE ELSE isLoading
          /\ showTTLSelector' = (showTTLSelector \/ ("ttl" \in fx /\ ~hasSessionTTLPreference(ttlPref)) \/ select)
          /\ hasHadSession' = (hasHadSession \/ ("had" \in fx /\ isReady) \/ select)
          /\ isCreatingSession' = (isCreatingSession \/ create)
          /\ showSealModal' = (showSealModal \/ create)
          /\ sealError' = IF create THEN "" ELSE sealError
          /\ attemptRef' = IF create THEN account ELSE attemptRef
          /\ pending' = IF create
                        THEN Append(pending, [address |-> account, queued |-> lateTrigger,
                                              pref |-> ttlPref, created |-> now])
                        ELSE pending
          /\ lateTrigger' = IF create THEN FALSE ELSE lateTrigger
    /\ UNCHANGED <<account, ttlPref, userEndedSession, reloadTimer, now>>
    /\ Schedule
    /\ UNCHANGED notSession

\* The words initSession's catch looks for in an error's message.
RejectionWords ==
    {<<"r", "e", "j", "e", "c", "t">>,
     <<"d", "e", "n", "i", "e", "d">>,
     <<"c", "a", "n", "c", "e", "l">>}

\* 'Failed to create SEAL session: '
Chars_FailedToCreate ==
    <<"F", "a", "i", "l", "e", "d", " ", "t", "o", " ", "c", "r", "e", "a",
      "t", "e", " ", "S", "E", "A", "L", " ", "s", "e", "s", "s", "i", "o",
      "n", ":", " ">>

\* Error texts of the steps of a creation: two a wallet gives when the user
\* declines ('User rejected the request', 'Rejected from user'), two of
\* other failures ('Not valid', 'Access denied').
ErrorTexts ==
    [userRejected |->
        <<"U", "s", "e", "r", " ", "r", "e", "j", "e", "c", "t", "e", "d", " ",
          "t", "h", "e", " ", "r", "e", "q", "u", "e", "s", "t">>,
     rejectedFromUser |->
        <<"R", "e", "j", "e", "c", "t", "e", "d", " ", "f", "r", "o", "m", " ",
          "u", "s", "e", "r">>,
     notValid |->
        <<"N", "o", "t", " ", "v", "a", "l", "i", "d">>,
     accessDenied |->
        <<"A", "c", "c", "e", "s", "s", " ", "d", "e", "n", "i", "e", "d">>]

\* String.prototype.includes
Includes(str, sub) ==
    \E i \in 1..(Len(str) - Len(sub) + 1) : SubSeq(str, i, i + Len(sub) - 1) = sub

\* How a createSealSession call ends: with the session, or with the error
\* of one of its steps.  The signer declines by throwing an Error whose text
\* is the wallet's; the other steps (SessionKey.create, the key servers,
\* setPersonalMessageSignature) throw texts of their own.
CreationDone == [ok |-> TRUE, declined |-> FALSE, message |-> <<>>]
CreationError(declined, message) == [ok |-> FALSE, declined |-> declined, message |-> message]
CreationOutcomes ==
    {CreationDone,
     CreationError(TRUE, ErrorTexts.userRejected),
     CreationError(TRUE, ErrorTexts.rejectedFromUser),
     CreationError(FALSE, ErrorTexts.notValid),
     CreationError(FALSE, ErrorTexts.accessDenied)}

\* createSealSession's catch: every error is rethrown as
\* new Error(`Failed to create SEAL session: ${error.message}`).
createSealSessionError(outcome) == Chars_FailedToCreate \o outcome.message

\* initSession's catch: the error counts as the signer's rejection when its
\* message includes 'reject', 'denied' or 'cancel'.
IsRejection(outcome) ==
    LET errorMsg == createSealSessionError(outcome)
    IN \E word \in RejectionWords : Includes(errorMsg, word)

\* What setSealError is given.
SealError(outcome) == IF IsRejection(outcome) THEN "rejected" ELSE "failed"

\* createSealSession settles (the session's creation time is that of the
\* call's start, SessionKey.create): the session is saved (saveSession), or the
\* signature was rejected (a reload is armed), or the creation failed.
CreationSettles(outcome) ==
    /\ fx = {} /\ pending # <<>>
    /\ pending' = Tail(pending)
    /\ isCreatingSession' = FALSE
    /\ IF outcome.ok
       THEN /\ storedSession' = Token(pending[1].address, pending[1].created)
            /\ sessionKey' = Token(pending[1].address, pending[1].created)
            /\ isReady' = TRUE
            /\ hasHadSession' = TRUE
            /\ showSealModal' = FALSE
            /\ UNCHANGED <<sealError, reloadTimer>>
       ELSE /\ sealError' = SealError(outcome)
            /\ reloadTimer' = (reloadTimer \/ IsRejection(outcome))
            /\ UNCHANGED <<storedSession, sessionKey, isReady, hasHadSession, showSealModal>>
    /\ UNCHANGED <<account, ttlPref, isLoading, error, userEndedSession,
                   showTTLSelector, attemptRef, lateTrigger, now>>
    /\ Schedule
    /\ UNCHANGED notSession

\* The Unlock button, rendered when account && !isSessionLoading && !sessionKey.
UnlockClick ==
    /\ fx = {}
    /\ account # NoItem /\ ~isLoading /\ sessionKey = NoToken
    /\ hasHadSession' = FALSE
    /\ userEndedSession' = FALSE
    /\ attemptRef' = NoItem
    /\ lateTrigger' = PendingHere
    /\ UNCHANGED <<account, storedSession, ttlPref, sessionKey, isReady, isLoading,
                   error, isCreatingSession, showTTLSelector, showSealModal,
                   sealError, pending, reloadTimer, now>>
    /\ Schedule
    /\ UNCHANGED notSession

\* SessionTTLSelector: handleConfirm saves the preference, then onConfirm.
TTLConfirm(minutes) ==
    /\ fx = {}
    /\ showTTLSelector
    /\ ttlPref' = minutes
    /\ showTTLSelector' = FALSE
    /\ hasHadSession' = FALSE
    /\ attemptRef' = NoItem
    /\ lateTrigger' = PendingHere
    /\ UNCHANGED <<account, storedSession, sessionKey, isReady, isLoading, error,
                   isCreatingSession, userEndedSession, showSealModal, sealError,
                   pending, reloadTimer, now>>
    /\ Schedule
    /\ UNCHANGED notSession

\* SettingsModal: handleSave stores the selected option when it differs from
\* the stored one, and onClose (setShowSettings(false)) renders Chat again.
SettingsSave(minutes) ==
    /\ fx = {}
    /\ account # NoItem
    /\ minutes # ttlPref
    /\ ttlPref' = minutes
    /\ fx' = {"init"}
    /\ UNCHANGED <<rendered, storedSession, attemptRef, pending, reloadTimer,
                   lateTrigger, now>>
    /\ UNCHANGED notSession

\* "End Session": refreshSession() (removeItem, the setters, loadSession on
\* the emptied storage) and setUserEndedSession(true).
EndSession ==
    /\ fx = {}
    /\ LET cleared == refresh(account, HookState)
       IN /\ storedSession' = cleared.stored
          /\ sessionKey' = cleared.key
          /\ isReady' = cleared.ready
          /\ error' = cleared.err
    /\ isLoading' = FALSE
    /\ userEndedSession' = TRUE
    /\ lateTrigger' = FALSE
    /\ UNCHANGED <<account, ttlPref, isCreatingSession, hasHadSession, showTTLSelector,
                   showSealModal, sealError, attemptRef, pending, reloadTimer, now>>
    /\ Schedule
    /\ UNCHANGED notSession

\* "Disconnect" with a session: refreshSession(), then disconnect(), whose
\* result (no account) arrives from the wallet as a later commit.
DisconnectClick ==
    /\ fx = {}
    /\ account # NoItem /\ sessionKey # NoToken
    /\ LET cleared == refresh(account, HookState)
       IN /\ storedSession' = cleared.stored
          /\ sessionKey' = cleared.key
          /\ isReady' = cleared.ready
          /\ error' = cleared.err
    /\ isLoading' = FALSE
    /\ lateTrigger' = FALSE
    /\ UNCHANGED <<account, ttlPref, isCreatingSession, userEndedSession, hasHadSession,
                   showTTLSelector, showSealModal, sealError, attemptRef, pending,
                   reloadTimer, now>>
    /\ Schedule
    /\ UNCHANGED notSession

\* The wallet connects, switches to another account, or disconnects.
SetAccount(a) ==
    /\ fx = {}
    /\ a # account
    /\ account' = a
    /\ lateTrigger' = FALSE
    /\ UNCHANGED <<storedSession, ttlPref, sessionKey, isReady, isLoading, error,
                   isCreatingSession, userEndedSession, hasHadSession, showTTLSelector,
                   showSealModal, sealError, attemptRef, pending, reloadTimer, now>>
    /\ Schedule
    /\ UNCHANGED notSession

\* Chat renders again for a reason of its own (a poll result, typing).
Rerender ==
    /\ fx = {}
    /\ fx' = {"init"}
    /\ UNCHANGED <<rendered, storedSession, ttlPref, attemptRef, pending,
                   reloadTimer, lateTrigger, now>>
    /\ UNCHANGED notSession

Tick ==
    /\ now < MaxNow
    /\ now' = now + 1
    /\ UNCHANGED <<rendered, storedSession, ttlPref, attemptRef, pending,
                   reloadTimer, lateTrigger, fx>>
    /\ UNCHANGED notSession

\* The state of a freshly mounted page over the given storage.
Mounted(acct, stored, pref, t) ==
    /\ account = acct
    /\ storedSession = stored
    /\ ttlPref = pref
    /\ sessionKey = NoToken
    /\ isReady = FALSE
    /\ isLoading = TRUE
    /\ error = ""
    /\ isCreatingSession = FALSE
    /\ userEndedSession = FALSE
    /\ hasHadSession = FALSE
    /\ showTTLSelector = FALSE
    /\ showSealModal = FALSE
    /\ sealError = ""
    /\ attemptRef = NoItem
    /\ pending = <<>>
    /\ reloadTimer = FALSE
    /\ lateTrigger = FALSE
    /\ now = t
    /\ fx = MountEffects

\* window.location.reload(), by the armed timer or by the user: the page
\* mounts again over the same storage; pending calls die with the old page.
Reload ==
    /\ account' \in {NoItem, account}
    /\ sessionKey' = NoToken
    /\ isReady' = FALSE
    /\ isLoading' = TRUE
    /\ error' = ""
    /\ isCreatingSession' = FALSE
    /\ userEndedSession' = FALSE
    /\ hasHadSession' = FALSE
    /\ showTTLSelector' = FALSE
    /\ showSealModal' = FALSE
    /\ sealError' = ""
    /\ attemptRef' = NoItem
    /\ pending' = <<>>
    /\ reloadTimer' = FALSE
    /\ lateTrigger' = FALSE
    /\ fx' = MountEffects
    /\ UNCHANGED <<storedSession, ttlPref, now>>
    /\ UNCHANGED notSession

IdleSession == Mounted(NoItem, NoToken, NoPref, 0)

InitSession ==
    \E acct \in Accounts \cup {NoItem}, stored \in StoredAtStart,
       pref \in TTL_OPTIONS \cup {NoPref} :
        Mounted(acct, stored, pref, 0)

(***************************************************************************)
(*        OPTIMISTIC / AUTHORITATIVE TIMELINE  (Chat.tsx)                  *)
(***************************************************************************)

Contacts == {"c1", "c2"}
\* chatIds[contact]: the chat id of the conversation, or none yet.
NoScope == <<>>
ScopeOf(contact) == IF contact = "c1" THEN <<"0", "x", "c", "1">> ELSE <<"0", "x", "c", "2">>
SendCalls == {"s1", "s2"}
\* What a send carries: the text, or one file (index 0 of selectedFiles).
Kinds == {"text", "0"}
\* useState(20), setMessageLimit(prev => prev + 20), setMessageLimit(20)
PageSize == 20
\* Number(undefined)
NaN == -1

\* uploadToWalrus gives each call the id of its own ciphertext.
BlobOf(s) == IF s = "s1" THEN "b1" ELSE "b2"

IdleSend == [pc |-> "idle", sender |-> NoItem, contact |-> NoItem,
             tempId |-> <<>>, kind |-> "text",
             blobId |-> NoItem, misretired |-> FALSE]

\* The recipient field of an optimistic entry: optMsg is built without one.
OptimisticRecipientSet(contact) == contact
OptimisticRecipient(contact) == Undefined

\* conversations.find(c => c.address === contact).messages: the polled events
\* the account sent to, or received from, the contact.
RealMessages(contact) ==
    SelectSeq(events, LAMBDA m :
        \/ m.sender = account /\ m.recipient = contact
        \/ m.recipient = account /\ m.sender # account /\ m.sender = contact)

\* allMessages.sort((a, b) => Number(b.timestamp) - Number(a.timestamp)):
\* a stable insertion sort, newest first, a NaN difference moving nothing.
\* setDecryptedMessages(prev => ({...prev, [id]: value})), with the account
\* the value was obtained under.
CachePut(cache, id, value, under) ==
    {e \in cache : e.id # id} \cup {[id |-> id, value |-> value, under |-> under]}

RECURSIVE InsertLastUnstable(_, _)
InsertLastUnstable(sorted, x) ==
    IF sorted = <<>> THEN <<x>>
    ELSE LET e == sorted[Len(sorted)]
         IN IF x.timestamp # NaN /\ e.timestamp # NaN /\ x.timestamp >= e.timestamp
            THEN Append(InsertLastUnstable(SubSeq(sorted, 1, Len(sorted) - 1), x), e)
            ELSE Append(sorted, x)
RECURSIVE InsertLast(_, _)
InsertLast(sorted, x) ==
    IF sorted = <<>> THEN <<x>>
    ELSE LET e == sorted[Len(sorted)]
         IN IF x.timestamp # NaN /\ e.timestamp # NaN /\ x.timestamp > e.timestamp
            THEN Append(InsertLast(SubSeq(sorted, 1, Len(sorted) - 1), x), e)
            ELSE Append(sorted, x)
RECURSIVE SortMessages(_)
SortMessages(all) ==
    IF all = <<>> THEN <<>>
    ELSE InsertLast(SortMessages(SubSeq(all, 1, Len(all) - 1)), all[Len(all)])

\* [...optimistic, ...realMessages]: the optimistic entries that pass the
\* filter on sender and recipient, then the conversation's polled messages.
allMessages ==
    IF selectedContact = NoItem THEN <<>>
    ELSE SelectSeq(optimisticMessages, LAMBDA m :
             m.sender = account /\ m.recipient = selectedContact)
         \o RealMessages(selectedContact)

\* sortedMessages.slice(0, messageLimit)
SliceLast(sorted, n) ==
    SubSeq(sorted, IF Len(sorted) < n THEN 1 ELSE Len(sorted) - n + 1, Len(sorted))
SliceFirst(sorted, n) ==
    SubSeq(sorted, 1, IF Len(sorted) < n THEN Len(sorted) ELSE n)

\* The merged timeline of the selected conversation, as the useMemo computes
\* it for a value of messageLimit.
Timeline(limit) ==
    IF selectedContact = NoItem THEN <<>>
    ELSE SliceFirst(SortMessages(allMessages), limit)

activeMessages == Timeline(messageLimit)

\* handleSendMessage up to its first await: the optimistic entry, with the
\* temporary id opt-<Date.now()>-<text | file index>, and its preview: the
\* text at once, a file when its FileReader has loaded it.
HandleSendMessage(s, kind) ==
    /\ chatFx = {} /\ sends[s].pc = "idle"
    /\ selectedContact # NoItem /\ account # NoItem
    /\ LET tempId == <<"opt", now, kind>>
       IN /\ optimisticMessages' = Append(optimisticMessages,
                 [id |-> tempId, sender |-> account,
                  recipient |-> OptimisticRecipient(selectedContact),
                  timestamp |-> NaN, walrus_blob_id |-> NoItem,
                  isOptimistic |-> TRUE, owner |-> s])
          /\ sends' = [sends EXCEPT ![s] = [IdleSend EXCEPT !.pc = "uploading",
                 !.sender = account, !.contact = selectedContact,
                 !.tempId = tempId, !.kind = kind]]
          /\ IF kind = "text"
             THEN /\ decryptedMessages' = CachePut(decryptedMessages, tempId, "text", account)
                  /\ UNCHANGED decrypts
             ELSE /\ decrypts' = decrypts \cup
                         {[id |-> tempId, kind |-> "preview", under |-> account, run |-> 1]}
                  /\ UNCHANGED decryptedMessages
    /\ chatFx' = {"remove"}
    /\ UNCHANGED <<selectedContact, ledger, events, account, now, chatIds, notChat,
                   viewVars>>

\* The upload returns: the blob id goes into every entry with this call's
\* temporary id.
UploadDone(s) ==
    /\ chatFx = {} /\ sends[s].pc = "uploading"
    /\ optimisticMessages' = [i \in 1..Len(optimisticMessages) |->
           IF optimisticMessages[i].id = sends[s].tempId
           THEN [optimisticMessages[i] EXCEPT !.walrus_blob_id = BlobOf(s)]
           ELSE optimisticMessages[i]]
    /\ sends' = [sends EXCEPT ![s].pc = "uploaded", ![s].blobId = BlobOf(s)]
    /\ chatFx' = IF optimisticMessages' # optimisticMessages THEN {"remove"} ELSE {}
    /\ UNCHANGED <<selectedContact, ledger, events, account, now, notChat,
                   viewVars>>
    /\ UNCHANGED <<decryptedMessages, decrypts, chatIds>>

\* signAndExecuteAsync returns: the chain holds the message, stamped by the
\* chain's own clock (here the position in the ledger).
Submitted(s) ==
    /\ chatFx = {} /\ sends[s].pc = "uploaded"
    /\ ledger' = Append(ledger,
           [id |-> <<"msg", BlobOf(s)>>, sender |-> sends[s].sender,
            recipient |-> sends[s].contact, timestamp |-> Len(ledger) + 1,
            walrus_blob_id |-> BlobOf(s), isOptimistic |-> FALSE, owner |-> s])
    /\ sends' = [sends EXCEPT ![s].pc = "done"]
    /\ UNCHANGED <<selectedContact, optimisticMessages, events, chatFx, account, now, notChat,
                   viewVars>>
    /\ UNCHANGED <<decryptedMessages, decrypts, chatIds>>

\* An await of the send throws: the catch removes the entries and the
\* previews whose ids are in optimisticIds, which holds the ids of the files
\* only.
SendFails(s) ==
    /\ chatFx = {} /\ sends[s].pc \in {"uploading", "uploaded"}
    /\ optimisticMessages' = SelectSeq(optimisticMessages, LAMBDA m :
           ~(sends[s].kind # "text" /\ m.id = sends[s].tempId))
    /\ decryptedMessages' = {e \in decryptedMessages :
           ~(sends[s].kind # "text" /\ e.id = sends[s].tempId)}
    /\ sends' = [sends EXCEPT ![s].pc = "failed"]
    /\ chatFx' = IF optimisticMessages' # optimisticMessages THEN {"remove"} ELSE {}
    /\ UNCHANGED <<selectedContact, ledger, events, account, now, notChat,
                   viewVars>>
    /\ UNCHANGED <<decrypts, chatIds>>

\* The MessageSent query refetches (every 3 s): newest first.
Poll ==
    /\ chatFx = {}
    /\ events' = [i \in 1..Len(ledger) |-> ledger[Len(ledger) + 1 - i]]
    /\ events' # events
    /\ chatFx' = {"remove"}
    /\ UNCHANGED <<selectedContact, optimisticMessages, sends, ledger, account, now, notChat,
                   viewVars>>
    /\ UNCHANGED <<decryptedMessages, decrypts, chatIds>>

SelectContact(c) ==
    /\ chatFx = {} /\ c # selectedContact
    /\ selectedContact' = c
    /\ chatFx' = {"remove", "reset"}
    /\ UNCHANGED <<optimisticMessages, sends, ledger, events, account, now, notChat,
                   viewVars>>
    /\ UNCHANGED <<decryptedMessages, decrypts, chatIds>>

\* The wallet switches to another account.
SwitchAccount(a) ==
    /\ chatFx = {} /\ a # account
    /\ account' = a
    /\ chatFx' = {"remove", "clear"}
    /\ UNCHANGED <<selectedContact, optimisticMessages, sends, ledger, events, now, notChat,
                   viewVars>>
    /\ UNCHANGED <<decryptedMessages, decrypts, chatIds>>

\* The effects of a commit: "Reset pagination on contact change" and the
\* scroll restore after a page was added;
\* "Remove Optimistic Messages", on the values of
\* the render (the selected conversation only), then "Clear Optimistic on
\* Account Change" (the speculative entries, decryptedMessages and chatIds
\* are emptied).  A send whose entry goes while its own blob id is not
\* among the polled ones is marked misretired.
ChatEffects ==
    /\ chatFx # {}
    /\ LET realBlobIds == {RealMessages(selectedContact)[i].walrus_blob_id :
                              i \in 1..Len(RealMessages(selectedContact))} \ {NoItem}
           matched == {optimisticMessages[i].id : i \in
                          {j \in 1..Len(optimisticMessages) :
                              optimisticMessages[j].walrus_blob_id \in realBlobIds}}
           gone == {optimisticMessages[i].owner : i \in
                       {j \in 1..Len(optimisticMessages) :
                           optimisticMessages[j].id \in matched}}
       IN /\ optimisticMessages' =
                 IF "clear" \in chatFx THEN <<>>
                 ELSE SelectSeq(optimisticMessages, LAMBDA m : m.id \notin matched)
          /\ sends' = [s \in SendCalls |->
                 IF s \in gone /\ sends[s].blobId \notin realBlobIds
                 THEN [sends[s] EXCEPT !.misretired = TRUE] ELSE sends[s]]
    /\ decryptedMessages' = IF "clear" \in chatFx THEN {} ELSE decryptedMessages
    /\ chatIds' = IF "clear" \in chatFx THEN [c \in Contacts |-> NoScope] ELSE chatIds
    /\ messageLimit' = IF "reset" \in chatFx THEN PageSize ELSE messageLimit
    /\ isLoadingMore' = IF chatFx \cap {"reset", "more"} # {} THEN FALSE
                        ELSE isLoadingMore
    /\ chatFx' = IF optimisticMessages' # optimisticMessages THEN {"remove"} ELSE {}
    /\ UNCHANGED <<selectedContact, ledger, events, account, now, decrypts, notChat,
                   readVars, chatEvents>>

\* handleScroll near the top of the list (scrollTop < 50): when the window is
\* smaller than the conversation's messages plus the optimistic entries, it
\* grows by a page.
handleScroll ==
    /\ chatFx = {} /\ ~isLoadingMore
    /\ LET totalMessages == IF selectedContact = NoItem
                                \/ RealMessages(selectedContact) = <<>> THEN 0
                            ELSE Len(RealMessages(selectedContact))
                                 + Len(optimisticMessages)
       IN messageLimit < totalMessages
    /\ isLoadingMore' = TRUE
    /\ messageLimit' = messageLimit + PageSize
    /\ chatFx' = {"more"}
    /\ UNCHANGED <<selectedContact, optimisticMessages, sends, ledger, events, account,
                   now, decryptedMessages, decrypts, chatIds, notChat, readVars,
                   chatEvents>>

\* The view as mounted: the first page, nothing loading.
NoMark == [pc |-> "idle", unreadMsgs |-> {}, batch |-> {}]
IdleView ==
    /\ messageLimit = PageSize
    /\ isLoadingMore = FALSE
    /\ readMessageIds = {}
    /\ readEvents = {}
    /\ chainRead = {}
    /\ owned = 0
    /\ markOp = NoMark
    /\ chatEvents = [data |-> FALSE, visible |-> {}]

IdleChat ==
    /\ selectedContact = NoItem
    /\ optimisticMessages = <<>>
    /\ sends = [s \in SendCalls |-> IdleSend]
    /\ ledger = <<>>
    /\ events = <<>>
    /\ chatFx = {"remove", "clear"}

(***************************************************************************)
(*   SCOPE RESOLUTION AND SEND PIPELINE  (Chat.tsx: the auto-create        *)
(*   effect, createChatForContact, handleSendMessage from its try block)   *)
(***************************************************************************)

\* The wallet is handed at most MaxTxs transactions in a behaviour.
MaxTxs == 3

\* What a send carries: a text, or a file and a text.
SendContents == {<<97>>, <<233, 97>>}
SendItems ==
    {<<[kind |-> "text", content |-> <<233, 97>>]>>}
        \cup {<<[kind |-> "file", content |-> <<97>>], [kind |-> "text", content |-> t]>> :
                  t \in SendContents}

IdleAuto == [pc |-> "idle", contact |-> NoItem]
IdlePipe == [pc |-> "idle", contact |-> NoItem, chatId |-> NoScope, queue |-> <<>>,
             content |-> <<>>, hash |-> <<>>, cipher |-> <<>>, steps |-> <<>>,
             calls |-> <<>>, cancel |-> FALSE, error |-> ""]

\* The dependencies of the auto-create effect.
AutoCreateDeps == <<selectedContact, chatIds, account>>

\* signAndExecuteAsync: the transaction is with the wallet.
WalletRequest(txs, kind, by, contact, calls) ==
    Append(txs, [kind |-> kind, by |-> by, account |-> account, contact |-> contact,
                 calls |-> calls, status |-> "pending"])

\* The auto-create effect, when its dependencies have changed: the cleanup
\* of the last run cancels its registry check; a new check starts for a
\* selected contact without a chat id unless isCreatingChat.
AutoCreateEffect ==
    /\ AutoCreateDeps # autoCreateSeen
    /\ autoCreateSeen' = AutoCreateDeps
    /\ autoCreate' =
         IF /\ selectedContact # NoItem /\ account # NoItem /\ ~isCreatingChat
            /\ chatIds[selectedContact] = NoScope
         THEN [pc |-> "checking", contact |-> selectedContact]
         ELSE IF autoCreate.pc = "checking" THEN IdleAuto ELSE autoCreate
    /\ UNCHANGED <<chatIds, isCreatingChat, registry, walletTxs, pipe, uploaded,
                   storeVars, viewVars, keyVars, cryptoVars, sessionVars, chatVars, cacheVars>>

\* What the three reads of fetchChatId can answer: the registry object
\* (read or a throw), the table lookup under vector<address> and the one
\* under vector<u8> (the entry, none, or a throw).  An entry is found only if
\* the pair is registered, and a registered pair is found by one of the two
\* forms of the key when both lookups answer.
FetchReads(pair) ==
    {r \in [object : {"ok", "throw"}, structured : {"found", "none", "throw"},
            bytes : {"found", "none", "throw"}] :
        /\ (r.structured = "found" \/ r.bytes = "found") => pair \in registry
        /\ (r.structured = "none" /\ r.bytes = "none") => pair \notin registry}

\* fetchChatId: the chat id, or null.  A throw of the first lookup is
\* swallowed; any other throw ends in the outer catch, which returns null.
fetchChatId(contact, r) ==
    IF r.object = "throw" THEN NoScope
    ELSE IF r.structured = "found" THEN ScopeOf(contact)
    ELSE IF r.bytes = "found" THEN ScopeOf(contact)
    ELSE NoScope

\* fetchChatId returns to the effect's check: the chat id found goes into
\* chatIds; with none, createChatForContact hands create_chat to the wallet.
CheckReturns(r) ==
    /\ autoCreate.pc = "checking"
    /\ r \in FetchReads(<<account, autoCreate.contact>>)
    /\ IF fetchChatId(autoCreate.contact, r) # NoScope
       THEN /\ chatIds' = [chatIds EXCEPT ![autoCreate.contact] =
                               fetchChatId(autoCreate.contact, r)]
            /\ autoCreate' = IdleAuto
            /\ UNCHANGED <<isCreatingChat, walletTxs>>
       ELSE /\ Len(walletTxs) < MaxTxs
            /\ isCreatingChat' = TRUE
            /\ walletTxs' = WalletRequest(walletTxs, "create_chat", "effect",
                                          autoCreate.contact, <<>>)
            /\ autoCreate' = [autoCreate EXCEPT !.pc = "signing"]
            /\ UNCHANGED chatIds
    /\ UNCHANGED <<registry, autoCreateSeen, pipe, uploaded,
                   storeVars, viewVars, keyVars, cryptoVars, sessionVars, chatVars, cacheVars>>

\* handleSendMessage enters its try block: with the chat id of the render,
\* the first message is hashed and its encryption awaited; without one,
\* fetchChatId is awaited.
PipeNext(p) ==
    IF p.queue = <<>> THEN [p EXCEPT !.pc = "signing"]
    ELSE [p EXCEPT !.pc = "encrypting", !.queue = Tail(p.queue),
                   !.content = p.queue[1].content,
                   !.hash = calculateContentHash(p.queue[1].content),
                   !.cipher = <<>>, !.steps = <<"hash">>]

SendStart(items) ==
    /\ pipe.pc = "idle"
    /\ selectedContact # NoItem /\ account # NoItem
    /\ LET p == [IdlePipe EXCEPT !.contact = selectedContact,
                                 !.chatId = chatIds[selectedContact],
                                 !.queue = items]
       IN pipe' = IF p.chatId # NoScope THEN PipeNext(p) ELSE [p EXCEPT !.pc = "locating"]
    /\ UNCHANGED <<chatIds, isCreatingChat, registry, walletTxs, autoCreate,
                   autoCreateSeen, uploaded,
                   storeVars, viewVars, keyVars, cryptoVars, sessionVars, chatVars, cacheVars>>

\* useState(0); the only call of setSendingImagesCount is
\* setSendingImagesCount(0) in the finally block of handleSendMessage.
sendingImagesCount == 0

\* The cancel button, rendered when isSending && sendingImagesCount > 0: the
\* only place that raises cancelSendingRef.  As sendingImagesCount stays 0
\* the button is never rendered, and no specification takes this step.
CancelClick ==
    /\ pipe.pc \in {"locating", "verifying", "scope", "encrypting", "uploading"}
    /\ sendingImagesCount > 0 /\ ~pipe.cancel
    /\ pipe' = [pipe EXCEPT !.cancel = TRUE]
    /\ UNCHANGED <<chatIds, isCreatingChat, registry, walletTxs, autoCreate,
                   autoCreateSeen, uploaded,
                   storeVars, viewVars, keyVars, cryptoVars, sessionVars, chatVars, cacheVars>>

\* checkCancelled(), then the step that follows it.
Checked(p, q) == IF p.cancel THEN [p EXCEPT !.pc = "cancelled", !.cancel = FALSE] ELSE q

\* fetchChatId returns to the send: the chat id found goes into chatIds and
\* the pipeline starts; with none, the send waits 800 ms.
ScopeLocated(r) ==
    /\ pipe.pc = "locating"
    /\ r \in FetchReads(<<account, pipe.contact>>)
    /\ IF fetchChatId(pipe.contact, r) # NoScope
       THEN /\ chatIds' = [chatIds EXCEPT ![pipe.contact] = fetchChatId(pipe.contact, r)]
            /\ pipe' = LET p == [pipe EXCEPT !.chatId = fetchChatId(pipe.contact, r)]
                       IN Checked(p, PipeNext(p))
       ELSE /\ pipe' = Checked(pipe, [pipe EXCEPT !.pc = "verifying"])
            /\ UNCHANGED chatIds
    /\ UNCHANGED <<isCreatingChat, registry, walletTxs, autoCreate, autoCreateSeen,
                   uploaded, storeVars, viewVars, keyVars, cryptoVars, sessionVars, chatVars,
                   cacheVars>>

\* The 800 ms have passed: the send hands create_chat to the wallet.
ScopeRequested ==
    /\ pipe.pc = "verifying"
    /\ pipe.cancel \/ Len(walletTxs) < MaxTxs
    /\ pipe' = Checked(pipe, [pipe EXCEPT !.pc = "scope"])
    /\ walletTxs' = IF pipe.cancel THEN walletTxs
                    ELSE WalletRequest(walletTxs, "create_chat", "send", pipe.contact, <<>>)
    /\ UNCHANGED <<chatIds, isCreatingChat, registry, autoCreate, autoCreateSeen,
                   uploaded, storeVars, viewVars, keyVars, cryptoVars, sessionVars, chatVars,
                   cacheVars>>

\* encryptMessage throws: the send ends in its catch block.
EncryptFailureUploadsPlain(p) ==
    [p EXCEPT !.pc = "uploading", !.cipher = toHEX(TextEncode(p.content)),
              !.steps = Append(p.steps, "encrypt")]
EncryptFailure(p) == [p EXCEPT !.pc = "failed", !.error = "Failed to encrypt message"]

\* encryptMessage returns (the upload is awaited next) or throws.
Encrypted(ok) ==
    /\ pipe.pc = "encrypting"
    /\ pipe' = IF ~ok THEN EncryptFailure(pipe)
               ELSE Checked(pipe,
                        [pipe EXCEPT !.pc = "uploading",
                                     !.cipher = encryptMessage(pipe.content, pipe.chatId,
                                                               pipe.hash),
                                     !.steps = Append(pipe.steps, "encrypt")])
    /\ UNCHANGED <<chatIds, isCreatingChat, registry, walletTxs, autoCreate,
                   autoCreateSeen, uploaded,
                   storeVars, viewVars, keyVars, cryptoVars, sessionVars, chatVars, cacheVars>>

\* The blob id Walrus answers an upload with: that of the blob holding the
\* same bytes, or else a new one.
BlobIdFirst(store, data) == "b1"
BlobIdFor(store, data) ==
    IF \E b \in BlobIds : store[b] = data
    THEN CHOOSE b \in BlobIds : store[b] = data
    ELSE IF store["b1"] = <<>> THEN "b1" ELSE "b2"

\* uploadToWalrus returns or throws.  With the blob id the send_message
\* call is added to the transaction; after the last message the transaction
\* is handed to the wallet.
Uploaded(ok) ==
    /\ pipe.pc = "uploading"
    /\ IF ~ok
       THEN /\ pipe' = [pipe EXCEPT !.pc = "failed", !.error = "Failed to upload"]
            /\ UNCHANGED <<uploaded, walletTxs>>
       ELSE LET blobId == BlobIdFor(uploaded, pipe.cipher)
                call == [chatId |-> pipe.chatId, recipient |-> pipe.contact,
                         blobId |-> blobId, hash |-> pipe.hash, plaintext |-> pipe.content,
                         steps |-> Append(pipe.steps, "upload")]
                p == PipeNext([pipe EXCEPT !.calls = Append(pipe.calls, call)])
                q == Checked(pipe, p)
            IN /\ uploaded' = [uploaded EXCEPT ![blobId] = pipe.cipher]
               /\ q.pc = "signing" => Len(walletTxs) < MaxTxs
               /\ pipe' = q
               /\ walletTxs' = IF q.pc = "signing"
                               THEN WalletRequest(walletTxs, "send_message", "send",
                                                  pipe.contact, q.calls)
                               ELSE walletTxs
    /\ UNCHANGED <<chatIds, isCreatingChat, registry, autoCreate, autoCreateSeen,
                   storeVars, viewVars, keyVars, cryptoVars, sessionVars, chatVars, cacheVars>>

\* A transaction with the wallet settles: signed and executed, declined by
\* the user, or (create_chat for a pair that has its chat) aborted by the
\* chain because the chat exists.  An executed create_chat registers the
\* pair.  createChatForContact and the send continue from their awaits: both
\* take every failure the same way.
SettleOutcomes == {"executed", "declined", "exists"}
WalletSettles(i, outcome) ==
    /\ i \in 1..Len(walletTxs) /\ walletTxs[i].status = "pending"
    /\ LET tx == walletTxs[i]
           ok == outcome = "executed"
           registered == <<tx.account, tx.contact>> \in registry
           byEffect == tx.kind = "create_chat" /\ tx.by = "effect"
           bySend == tx.kind = "create_chat" /\ tx.by = "send"
           scoped == [pipe EXCEPT !.chatId = ScopeOf(tx.contact)]
       IN /\ outcome = "exists" => (tx.kind = "create_chat" /\ registered)
          /\ outcome = "executed" => ~(tx.kind = "create_chat" /\ registered)
          /\ walletTxs' = [walletTxs EXCEPT ![i].status = outcome]
          /\ registry' = IF ok /\ tx.kind = "create_chat"
                         THEN registry \cup {<<tx.account, tx.contact>>} ELSE registry
          /\ chatIds' = IF ok /\ tx.kind = "create_chat"
                        THEN [chatIds EXCEPT ![tx.contact] = ScopeOf(tx.contact)]
                        ELSE chatIds
          /\ isCreatingChat' = IF byEffect THEN FALSE ELSE isCreatingChat
          /\ autoCreate' = IF byEffect THEN IdleAuto ELSE autoCreate
          /\ selectedContact' = IF byEffect /\ ~ok THEN NoItem ELSE selectedContact
          /\ pipe' = IF byEffect THEN pipe
                     ELSE IF ~ok THEN [pipe EXCEPT !.pc = "failed",
                                                   !.error = "Transaction failed"]
                     ELSE IF bySend THEN Checked(scoped, PipeNext(scoped))
                     ELSE [pipe EXCEPT !.pc = "done"]
    /\ UNCHANGED <<autoCreateSeen, uploaded, optimisticMessages, sends, ledger, events,
                   chatFx, storeVars, viewVars, keyVars, cryptoVars, sessionVars, cacheVars>>

\* The contact's client has its create_chat executed: the pair is
\* registered.
PeerCreates(contact) ==
    /\ account # NoItem /\ <<account, contact>> \notin registry
    /\ registry' = registry \cup {<<account, contact>>}
    /\ UNCHANGED <<chatIds, isCreatingChat, walletTxs, autoCreate, autoCreateSeen, pipe,
                   uploaded, storeVars, viewVars, keyVars, cryptoVars, sessionVars, chatVars,
                   cacheVars>>

\* The ChatCreated query refetches (every 5 s) with a changed result, and the
\* "Process Chat Events" effect runs on it: visible are the contacts whose
\* chat with the account has its event among the 100 newest.  The effect
\* builds newChatIds from the events alone and calls setChatIds(newChatIds).
ChatIdsFromEvents(prev, visible) ==
    [c \in Contacts |-> IF c \in visible THEN ScopeOf(c) ELSE NoScope]
PollChatEvents(visible) ==
    /\ account # NoItem
    /\ visible \subseteq {c \in Contacts : <<account, c>> \in registry}
    /\ chatEvents' = [data |-> TRUE, visible |-> visible]
    /\ chatEvents' # chatEvents
    /\ chatIds' = ChatIdsFromEvents(chatIds, visible)
    /\ UNCHANGED <<scopeRest, pageVars, readVars, storeVars, keyVars, cryptoVars,
                   sessionVars, chatVars, cacheVars>>

IdleScope ==
    /\ chatIds = [c \in Contacts |-> NoScope]
    /\ isCreatingChat = FALSE
    /\ registry = {}
    /\ walletTxs = <<>>
    /\ autoCreate = IdleAuto
    /\ autoCreateSeen = AutoCreateDeps
    /\ pipe = IdlePipe
    /\ uploaded = [b \in BlobIds |-> <<>>]

(***************************************************************************)
(*        DECRYPTION CACHE  (Chat.tsx, the Decrypt Messages effect)        *)
(***************************************************************************)

\* The dependencies of the Decrypt Messages effect.
DecryptDeps == <<activeMessages, sessionKey, isReady, account, chatIds, selectedContact>>

\* At most MaxRuns runs of the effect are in flight for one message.
MaxRuns == 2
RunsInFlight(id) == {op \in decrypts : op.id = id /\ op.kind \in {"decrypt", "locked"}}
FreeRun(id) == CHOOSE n \in 1..MaxRuns :
                  /\ \A op \in RunsInFlight(id) : op.run # n
                  /\ \A k \in 1..(n - 1) : \E op \in RunsInFlight(id) : op.run = k

\* The messages the effect starts a run for: those of the timeline with a
\* blob id and nothing under their id in decryptedMessages (read through
\* decryptedMessagesRef).  Runs in flight are not looked at.
DecryptStarts ==
    {activeMessages[i].id : i \in {j \in 1..Len(activeMessages) :
        /\ activeMessages[j].walrus_blob_id # NoItem
        /\ \A e \in decryptedMessages : e.id # activeMessages[j].id}}

\* The Decrypt Messages effect, when its dependencies have changed: with an
\* account and a session key, one asynchronous run per message of
\* DecryptStarts.  Each run keeps the account, the key and the chat id of
\* this render.
DecryptEffect ==
    /\ DecryptDeps # decryptSeen
    /\ decryptSeen' = DecryptDeps
    /\ decrypts' =
         IF account = NoItem \/ sessionKey = NoToken THEN decrypts
         ELSE decrypts \cup
              {[id |-> id,
                kind |-> IF chatIds[selectedContact] # NoScope THEN "decrypt" ELSE "locked",
                under |-> account, run |-> FreeRun(id)] :
               id \in {d \in DecryptStarts : Cardinality(RunsInFlight(d)) < MaxRuns}}
    /\ UNCHANGED <<decryptedMessages, storeVars, viewVars, keyVars, cryptoVars, sessionVars,
                   chatVars, scopeVars>>

\* What a run of the effect ends with: the text, the retry link shown when
\* the render had no chat id, or one of the two failure texts.
CachedResult(result) == IF result.ok THEN "text" ELSE "decrypt-failed"
DecryptResults ==
    LET h == calculateContentHash(<<97>>)
    IN {decryptMessage(encryptMessage(<<97>>, NoScope, h), h, FALSE, sessionValid, approved) :
            sessionValid \in BOOLEAN, approved \in BOOLEAN}
DecryptOutcomes(op) ==
    IF op.kind = "decrypt" THEN {CachedResult(r) : r \in DecryptResults} \cup {"load-failed"}
    ELSE {"locked", "load-failed"}

\* A run's download and decryption have settled: the result is written
\* under the message's id.
DecryptSettles(op, outcome) ==
    /\ op \in decrypts /\ op.kind \in {"decrypt", "locked"}
    /\ outcome \in DecryptOutcomes(op)
    /\ decrypts' = decrypts \ {op}
    /\ decryptedMessages' = CachePut(decryptedMessages, op.id, outcome, op.under)
    /\ UNCHANGED <<decryptSeen, storeVars, viewVars, keyVars, cryptoVars, sessionVars, chatVars,
                   scopeVars>>

\* reader.onload of a file's preview: the file's content is written under
\* the temporary id.
PreviewLoaded(op) ==
    /\ op \in decrypts /\ op.kind = "preview"
    /\ decrypts' = decrypts \ {op}
    /\ decryptedMessages' = CachePut(decryptedMessages, op.id, "text", op.under)
    /\ UNCHANGED <<decryptSeen, storeVars, viewVars, keyVars, cryptoVars, sessionVars, chatVars,
                   scopeVars>>

\* retryDownload(msgId, blobId), from the click on "Failed to load (Click to
\* retry)" up to its await: the entry of the message is deleted and the
\* blob is downloaded again.
retryDownload(id) ==
    /\ \E i \in 1..Len(activeMessages) :
           activeMessages[i].id = id /\ activeMessages[i].walrus_blob_id # NoItem
    /\ \E e \in decryptedMessages : e.id = id /\ e.value = "load-failed"
    /\ \A op \in decrypts : ~(op.id = id /\ op.kind = "retry")
    /\ decryptedMessages' = {e \in decryptedMessages : e.id # id}
    /\ decrypts' = decrypts \cup {[id |-> id, kind |-> "retry", under |-> account,
                                   run |-> 1]}
    /\ UNCHANGED <<decryptSeen, storeVars, viewVars, keyVars, cryptoVars, sessionVars,
                   chatVars, scopeVars>>

\* downloadFromWalrus of a retry has settled: what it returned is written
\* under the message's id, or the failure text when it threw.
RetryStores(ok) == IF ok THEN "ciphertext" ELSE "load-failed"
RetrySettles(op, ok) ==
    /\ op \in decrypts /\ op.kind = "retry"
    /\ decrypts' = decrypts \ {op}
    /\ decryptedMessages' = CachePut(decryptedMessages, op.id, RetryStores(ok), op.under)
    /\ UNCHANGED <<decryptSeen, storeVars, viewVars, keyVars, cryptoVars, sessionVars,
                   chatVars, scopeVars>>

\* A contact's message to an account reaches the chain, stamped with the
\* chain's time in seconds.
ReceiveAt(contact, to, blobId, t) ==
    /\ \A i \in 1..Len(ledger) : ledger[i].walrus_blob_id # blobId
    /\ ledger' = Append(ledger,
           [id |-> <<"msg", blobId>>, sender |-> contact, recipient |-> to,
            timestamp |-> t, walrus_blob_id |-> blobId,
            isOptimistic |-> FALSE, owner |-> NoItem])
    /\ UNCHANGED <<selectedContact, optimisticMessages, sends, events, chatFx,
                   storeVars, viewVars, keyVars, cryptoVars, sessionVars, cacheVars, scopeVars>>

Receive(contact, to, blobId) == ReceiveAt(contact, to, blobId, Len(ledger) + 1)

\* The chain's clock when the next message is stamped: the second of the
\* last message, or the one after it.
ChainTimes ==
    LET last == IF ledger = <<>> THEN 1 ELSE ledger[Len(ledger)].timestamp
    IN {last, last + 1}

IdleCache ==
    /\ decryptedMessages = {}
    /\ decrypts = {}
    /\ decryptSeen = DecryptDeps

\* C23: after a send has failed, none of the optimistic entries it created
\* is left in optimisticMessages, and decryptedMessages holds nothing under
\* its temporary id (unless another send uses the same id).
C23_FailedSendRolledBack ==
    \A s \in SendCalls :
        (chatFx = {} /\ sends[s].pc = "failed") =>
            /\ \A i \in 1..Len(optimisticMessages) : optimisticMessages[i].owner # s
            /\ (\A t \in SendCalls \ {s} : sends[t].tempId # sends[s].tempId)
                   => \A e \in decryptedMessages : e.id # sends[s].tempId

(***************************************************************************)
(*               DECRYPTION CACHE: specification and claims                *)
(***************************************************************************)

\* The page after the hook has restored the stored session of acct: the
\* state SpecSession reaches from Mounted(acct, Token(acct, t), pref, t) by
\* the effects of the mount.
Restored(acct, pref, t) ==
    /\ account = acct
    /\ storedSession = Token(acct, t)
    /\ ttlPref = pref
    /\ sessionKey = Token(acct, t)
    /\ isReady = TRUE
    /\ isLoading = FALSE
    /\ error = ""
    /\ isCreatingSession = FALSE
    /\ userEndedSession = FALSE
    /\ hasHadSession = TRUE
    /\ showTTLSelector = FALSE
    /\ showSealModal = FALSE
    /\ sealError = ""
    /\ attemptRef = NoItem
    /\ pending = <<>>
    /\ reloadTimer = FALSE
    /\ lateTrigger = FALSE
    /\ now = t
    /\ fx = {}

\* Every pair has its chat on the chain, and the reads of the registry
\* succeed.
InitCacheSpec ==
    /\ IdleChat /\ IdleStore /\ IdleKey /\ IdleCrypto
    /\ Restored("A", SEAL_SESSION_TTL_MINUTES, 0)
    /\ chatIds = [c \in Contacts |-> NoScope]
    /\ isCreatingChat = FALSE
    /\ registry = Accounts \X Contacts
    /\ walletTxs = <<>>
    /\ autoCreate = IdleAuto
    /\ autoCreateSeen = AutoCreateDeps
    /\ pipe = IdlePipe
    /\ uploaded = [b \in BlobIds |-> <<>>]
    /\ IdleCache /\ IdleView

\* The passive effects of a commit run before the next event is handled.
Quiet == DecryptDeps = decryptSeen /\ AutoCreateDeps = autoCreateSeen

\* On a switch of account the hook loads the stored session again, which
\* leaves the session key as it was (LoadSession).
NextCache ==
    \/ \E c \in Contacts : Receive(c, "A", "b1")
    \/ Quiet /\ Poll
    \/ \E c \in Contacts : Quiet /\ SelectContact(c)
    \/ \E a \in Accounts : Quiet /\ SwitchAccount(a)
    \/ ChatEffects
    \/ AutoCreateEffect
    \/ \E r \in FetchReads(<<account, autoCreate.contact>>) :
           r.object = "ok" /\ r.structured = "found" /\ CheckReturns(r)
    \/ DecryptEffect
    \/ \E op \in decrypts : \E outcome \in DecryptOutcomes(op) : DecryptSettles(op, outcome)
    \/ \E op \in decrypts : PreviewLoaded(op)
    \/ Quiet /\ HandleSendMessage("s1", "0")

SpecCache == InitCacheSpec /\ [][NextCache]_vars

\* C12: once the effects of a switch of account have run, decryptedMessages
\* holds no plaintext that a download and decryption obtained under another
\* account than the connected one, also when the download and decryption
\* were in flight during the switch.
C12_CacheHoldsNoForeignPlaintext ==
    (chatFx = {} /\ Quiet) =>
        \A e \in decryptedMessages :
            (e.id[1] = "msg" /\ e.value = "text") => e.under = account

\* C24: at no time are two runs of download and decryption in flight for
\* the same message.
C24_OneRunPerMessage ==
    \A op \in decrypts : op.kind # "preview" => RunsInFlight(op.id) = {op}

\* C25: two decryptions that failed for different reasons (the session
\* key not valid, the key servers refusing access) leave different values
\* in decryptedMessages.
C25_FailureCauseInCache ==
    \A r1, r2 \in Roles :
        (/\ decOut[r1].done /\ decOut[r2].done
         /\ ~decOut[r1].returned.ok /\ ~decOut[r2].returned.ok
         /\ decOut[r1].returned.error # decOut[r2].returned.error)
            => CachedResult(decOut[r1].returned) # CachedResult(decOut[r2].returned)

(***************************************************************************)
(*        SCOPE RESOLUTION AND SEND: specification and claims              *)
(***************************************************************************)

\* Account A with a restored session; no chat is on the chain yet.
InitSendSpec ==
    /\ IdleChat /\ IdleStore /\ IdleKey /\ IdleCrypto
    /\ Restored("A", SEAL_SESSION_TTL_MINUTES, 0)
    /\ chatIds = [c \in Contacts |-> NoScope]
    /\ isCreatingChat = FALSE
    /\ registry = {}
    /\ walletTxs = <<>>
    /\ autoCreate = IdleAuto
    /\ autoCreateSeen = AutoCreateDeps
    /\ pipe = IdlePipe
    /\ uploaded = [b \in BlobIds |-> <<>>]
    /\ IdleCache /\ IdleView

\* The passive effects of a commit run before anything else is handled.
Settled == chatFx = {} /\ Quiet

NextSend ==
    \/ ChatEffects
    \/ DecryptEffect
    \/ AutoCreateEffect
    \/ Settled /\ SelectContact("c1")
    \/ PeerCreates("c1")
    \/ \E items \in SendItems : Settled /\ SendStart(items)
    \/ \E r \in FetchReads(<<account, autoCreate.contact>>) : Settled /\ CheckReturns(r)
    \/ \E r \in FetchReads(<<account, pipe.contact>>) : Settled /\ ScopeLocated(r)
    \/ Settled /\ ScopeRequested
    \/ \E ok \in BOOLEAN : Settled /\ Encrypted(ok)
    \/ \E ok \in BOOLEAN : Settled /\ Uploaded(ok)
    \/ \E i \in 1..MaxTxs, outcome \in SettleOutcomes : Settled /\ WalletSettles(i, outcome)

SpecSend == InitSendSpec /\ [][NextSend]_vars

\* C19: for a pair of account and contact, the client hands at most one
\* create_chat to the wallet that has not failed, whatever the interleaving
\* of the auto-create effect and the send of the first message.
C19_OneScopeCreationPerPair ==
    \A i, j \in 1..Len(walletTxs) :
        (/\ i < j
         /\ walletTxs[i].kind = "create_chat" /\ walletTxs[j].kind = "create_chat"
         /\ walletTxs[i].account = walletTxs[j].account
         /\ walletTxs[i].contact = walletTxs[j].contact)
            => (walletTxs[i].status \in {"declined", "exists"}
                    \/ walletTxs[j].status \in {"declined", "exists"})

\* C28: fetchChatId leaves its caller without a chat id (after which the
\* effect hands create_chat to the wallet, and the send starts its wait
\* before doing the same) only if the registry has no entry for the pair.
C28_LookupReportsNone ==
    \/ /\ autoCreate.pc = "checking" /\ autoCreate'.pc = "signing"
       /\ <<account, autoCreate.contact>> \in registry
    \/ /\ pipe.pc = "locating" /\ pipe'.pc = "verifying"
       /\ <<account, pipe.contact>> \in registry
C28_NoneOnlyWhenUnregistered == [][~C28_LookupReportsNone]_vars

\* C29: when the chain aborts a create_chat because the chat of the pair
\* exists, the contact stays selected, its chat id is recorded in chatIds
\* and a send that asked for the creation does not fail.
C29_CreationMeetsExisting(i) == walletTxs[i].status = "pending" /\ WalletSettles(i, "exists")
C29_ExistingScopeIsSuccess ==
    [][\A i \in 1..Len(walletTxs) :
           C29_CreationMeetsExisting(i) =>
               /\ selectedContact' = selectedContact
               /\ chatIds'[walletTxs[i].contact] # NoScope
               /\ pipe'.pc # "failed"]_vars

\* C20: every send_message call of a transaction handed to the wallet
\* carries the hash of its message's plaintext and the blob id under which
\* Walrus holds that plaintext's ciphertext (encrypted for that hash), and
\* the message went through hash, encryption and upload in this order.
C20_SendMessageBindsUploadAndHash ==
    \A i \in 1..Len(walletTxs) :
        walletTxs[i].kind = "send_message" =>
            /\ walletTxs[i].calls # <<>>
            /\ \A k \in 1..Len(walletTxs[i].calls) :
                 LET call == walletTxs[i].calls[k]
                 IN /\ call.plaintext \in SendContents
                    /\ call.hash = calculateContentHash(call.plaintext)
                    /\ uploaded[call.blobId] =
                           encryptMessage(call.plaintext, call.chatId, call.hash)
                    /\ call.steps = <<"hash", "encrypt", "upload">>

\* A file and a text of different content were sent in one executed
\* transaction, after the send itself created the chat.
C20_Witness ==
    \E i \in 1..Len(walletTxs) :
        /\ walletTxs[i].kind = "send_message" /\ walletTxs[i].status = "executed"
        /\ Len(walletTxs[i].calls) = 2
        /\ walletTxs[i].calls[1].plaintext # walletTxs[i].calls[2].plaintext
        /\ walletTxs[i].calls[1].blobId # walletTxs[i].calls[2].blobId
        /\ \E j \in 1..Len(walletTxs) : walletTxs[j].by = "send" /\ walletTxs[j].kind = "create_chat"

\* C27: whatever the send has uploaded is the ciphertext encryptMessage
\* returned for one of its messages; and when encryptMessage has thrown, the
\* send has failed with that error, no transaction was handed to the wallet
\* for it, and the only uploads are those of the messages before.
C27_OnlyCiphertextUploaded ==
    /\ \A b \in BlobIds : uploaded[b] # <<>> =>
           \E P \in SendContents :
               uploaded[b] = encryptMessage(P, ScopeOf(pipe.contact), calculateContentHash(P))
    /\ pipe.error = "Failed to encrypt message" =>
           /\ pipe.pc = "failed"
           /\ \A i \in 1..Len(walletTxs) : walletTxs[i].kind # "send_message"
           /\ \A b \in BlobIds : uploaded[b] # <<>> =>
                  \E k \in 1..Len(pipe.calls) : pipe.calls[k].blobId = b

\* The file of a send was encrypted and uploaded, and the encryption of
\* its text has thrown.
C27_Witness ==
    /\ pipe.error = "Failed to encrypt message"
    /\ Len(pipe.calls) = 1
    /\ uploaded[pipe.calls[1].blobId] # <<>>

(***************************************************************************)
(*   READ RECEIPTS  (Chat.tsx: Process Read Events, markMessagesAsRead)    *)
(***************************************************************************)

\* unreadMsgs.slice(0, 50)
BatchSize == 50
\* The most messages of the contact the account comes to own.
MaxOwned == 51
\* The ids of the messages the account sent, which the contact may read.
SentIds == {101}

\* The n smallest members of a set of ids (the order of owned.data).
FirstOf(ids, n) == {i \in ids : Cardinality({j \in ids : j < i}) < n}

\* Messages of the contact become objects the account owns, unread: the
\* first one, a batch of them, one more than a batch.
MessageOwned ==
    /\ owned' \in {1, BatchSize, MaxOwned}
    /\ owned' > owned
    /\ UNCHANGED <<readMessageIds, readEvents, chainRead, markOp, pageVars, chatEvents,
                   storeVars, keyVars, cryptoVars, sessionVars, chatVars, cacheVars,
                   scopeVars>>

\* The contact marks a message of the account as read: the chain emits
\* MessageReadSimple for it.
PeerReads(id) ==
    /\ id \notin chainRead
    /\ chainRead' = chainRead \cup {id}
    /\ UNCHANGED <<readMessageIds, readEvents, owned, markOp, pageVars, chatEvents,
                   storeVars, keyVars, cryptoVars, sessionVars, chatVars, cacheVars,
                   scopeVars>>

\* The MessageReadSimple query refetches (every 3 s).
PollReadEvents ==
    /\ readEvents' = chainRead
    /\ readEvents' # readEvents
    /\ UNCHANGED <<readMessageIds, chainRead, owned, markOp, pageVars, chatEvents,
                   storeVars, keyVars, cryptoVars, sessionVars, chatVars, cacheVars,
                   scopeVars>>

\* The "Process Read Events" effect: every message id of the polled events
\* is added to the set.
ProcessReadEvents ==
    /\ readMessageIds' = readMessageIds \cup readEvents
    /\ UNCHANGED <<readEvents, chainRead, owned, markOp, pageVars, chatEvents,
                   storeVars, keyVars, cryptoVars, sessionVars, chatVars, cacheVars,
                   scopeVars>>

\* markMessagesAsRead(selectedContact) up to signAndExecuteAsync: the unread
\* messages of the contact among the owned objects, and a transaction that
\* marks the first 50 of them.
markMessagesAsRead ==
    /\ markOp.pc = "idle"
    /\ selectedContact # NoItem /\ chatIds[selectedContact] # NoScope
    /\ LET unreadMsgs == (1..owned) \ chainRead
       IN /\ unreadMsgs # {}
          /\ markOp' = [pc |-> "signing", unreadMsgs |-> unreadMsgs,
                        batch |-> FirstOf(unreadMsgs, BatchSize)]
    /\ UNCHANGED <<readMessageIds, readEvents, chainRead, owned, pageVars, chatEvents,
                   storeVars, keyVars, cryptoVars, sessionVars, chatVars, cacheVars,
                   scopeVars>>

\* signAndExecuteAsync settles: then() adds the ids of unreadMsgs to the
\* set, catch() logs.
AddedOnMark(op) == op.unreadMsgs
MarkSettles(ok) ==
    /\ markOp.pc = "signing"
    /\ markOp' = NoMark
    /\ chainRead' = IF ok THEN chainRead \cup markOp.batch ELSE chainRead
    /\ readMessageIds' = IF ok THEN readMessageIds \cup AddedOnMark(markOp)
                         ELSE readMessageIds
    /\ UNCHANGED <<readEvents, owned, pageVars, chatEvents,
                   storeVars, keyVars, cryptoVars, sessionVars, chatVars, cacheVars,
                   scopeVars>>

(***************************************************************************)
(*                   TIMELINE: specification and claims                    *)
(***************************************************************************)

NextChat ==
    \/ \E s \in SendCalls, kind \in Kinds : HandleSendMessage(s, kind)
    \/ \E s \in SendCalls : UploadDone(s)
    \/ \E s \in SendCalls : Submitted(s)
    \/ \E s \in SendCalls : SendFails(s)
    \/ Poll
    \/ \E c \in Contacts : SelectContact(c)
    \/ \E a \in Accounts : SwitchAccount(a)
    \/ ChatEffects
    \/ Tick

InitChatSpec ==
    /\ IdleChat /\ IdleStore /\ IdleKey /\ IdleCrypto
    /\ Mounted("A", NoToken, SEAL_SESSION_TTL_MINUTES, 0)
    /\ IdleScope /\ IdleCache /\ IdleView

SpecChat == InitChatSpec /\ [][NextChat]_vars

\* The effects of a commit always run, and the poll never stops.
SpecChatFair == SpecChat /\ WF_vars(ChatEffects) /\ WF_vars(Poll)

\* The blob ids the last poll has shown.
ObservedBlobIds == {events[i].walrus_blob_id : i \in 1..Len(events)}

\* C3: in the merged timeline, no blob id is carried by an optimistic entry
\* and by an authoritative entry at once.
C3_NoDuplicateInTimeline ==
    \A i, j \in 1..Len(activeMessages) :
        ~(/\ activeMessages[i].isOptimistic
          /\ ~activeMessages[j].isOptimistic
          /\ activeMessages[i].walrus_blob_id = activeMessages[j].walrus_blob_id)

\* The timeline shows the authoritative entry of a blob whose optimistic
\* entry is still in the speculative set.
C3_Witness ==
    \E i \in 1..Len(activeMessages), k \in 1..Len(optimisticMessages) :
        /\ ~activeMessages[i].isOptimistic
        /\ optimisticMessages[k].walrus_blob_id = activeMessages[i].walrus_blob_id

\* C4: once the poll has shown the authoritative envelope of an optimistic
\* entry's blob, the entry is eventually removed.
C4_ObservedEventuallyRetired ==
    \A s \in SendCalls :
        (\E k \in 1..Len(optimisticMessages) :
            /\ optimisticMessages[k].owner = s
            /\ optimisticMessages[k].walrus_blob_id = BlobOf(s)
            /\ BlobOf(s) \in ObservedBlobIds)
        ~> (\A k \in 1..Len(optimisticMessages) : optimisticMessages[k].owner # s)

\* The safety half of C4, which the code keeps for an entry whose temporary
\* id no other entry shares: with a blob id, it leaves the speculative set
\* only when that blob id has been polled, when its send fails, or when the
\* account changes.
C4_StaysUntilObserved ==
    [][\A k \in 1..Len(optimisticMessages) :
          (/\ optimisticMessages[k].walrus_blob_id # NoItem
           /\ \A t \in SendCalls :
                  t # optimisticMessages[k].owner
                      => sends[t].tempId # optimisticMessages[k].id
           /\ \A n \in 1..Len(optimisticMessages') :
                  optimisticMessages'[n].owner # optimisticMessages[k].owner)
          => \/ optimisticMessages[k].walrus_blob_id \in ObservedBlobIds
             \/ "clear" \in chatFx
             \/ sends'[optimisticMessages[k].owner].pc = "failed"]_vars

\* C5: two sends in flight have optimistic entries with different temporary
\* ids, an entry carries no blob id but that of its own send, and an entry
\* is retired only once its own blob id has been polled.
C5_IndependentEntries ==
    /\ \A i, j \in 1..Len(optimisticMessages) :
           i # j => optimisticMessages[i].id # optimisticMessages[j].id
    /\ \A i \in 1..Len(optimisticMessages) :
           optimisticMessages[i].walrus_blob_id
               \in {NoItem, sends[optimisticMessages[i].owner].blobId}
    /\ \A s \in SendCalls : ~sends[s].misretired

\* What does hold: sends that read different clock values do not interfere.
C5_DistinctClockReadings ==
    (\A s, t \in SendCalls :
        (s # t /\ sends[s].pc # "idle" /\ sends[t].pc # "idle")
            => sends[s].tempId # sends[t].tempId)
    => (/\ \A i \in 1..Len(optimisticMessages) :
              optimisticMessages[i].walrus_blob_id
                  \in {NoItem, sends[optimisticMessages[i].owner].blobId}
        /\ \A s \in SendCalls : ~sends[s].misretired)

\* The timeline when messages of the same second are among those received.
ReceivedBlobs == {"r1", "r2", "r3"}

NextTimeline ==
    \/ \E c \in Contacts, b \in ReceivedBlobs :
           \E t \in ChainTimes : ReceiveAt(c, "A", b, t)
    \/ \E kind \in Kinds : HandleSendMessage("s1", kind)
    \/ UploadDone("s1")
    \/ Submitted("s1")
    \/ SendFails("s1")
    \/ Poll
    \/ \E c \in Contacts : SelectContact(c)
    \/ ChatEffects

SpecTimeline == InitChatSpec /\ [][NextTimeline]_vars

\* The place of a timeline entry in allMessages, the order of arrival.
C30_Arrival(m) == CHOOSE k \in 1..Len(allMessages) : allMessages[k] = m

C35_OptimisticEntryShown ==
    \A k \in 1..Len(optimisticMessages) :
        (/\ optimisticMessages[k].sender = account
         /\ sends[optimisticMessages[k].owner].contact = selectedContact)
        => \E i \in 1..Len(activeMessages) :
               activeMessages[i].id = optimisticMessages[k].id

\* A long conversation: the contact's messages arrive one after the other,
\* two in every second, up to MaxFeed of them.
MaxFeed == 41
ReceiveNext ==
    /\ Len(ledger) < MaxFeed
    /\ ReceiveAt("c1", "A", "m" \o ToString(Len(ledger) + 1),
                 (Len(ledger) + 2) \div 2)

NextPage ==
    \/ ReceiveNext
    \/ Poll
    \/ \E c \in Contacts : SelectContact(c)
    \/ ChatEffects
    \/ handleScroll

SpecPage == InitChatSpec /\ [][NextPage]_vars

\* C31: the timeline shows at most messageLimit entries and no entry left
\* out is newer than one shown; and the timeline of every smaller window the
\* scroll has gone through is a prefix of the timeline shown.
C31_WindowIsNewestPrefix ==
    \A shown \in {activeMessages}, all \in {allMessages} :
        /\ Len(shown) <= messageLimit
        /\ \A k \in 1..Len(all) :
               (\A i \in 1..Len(shown) : shown[i] # all[k])
               => all[k].timestamp <= shown[Len(shown)].timestamp
        /\ \A pages \in 1..(messageLimit \div PageSize) :
               \A before \in {Timeline(pages * PageSize)} :
                   /\ Len(before) <= Len(shown)
                   /\ SubSeq(shown, 1, Len(before)) = before

\* The window has grown to two pages, shows two pages, and the conversation
\* still has more messages than it shows.
C31_Witness ==
    /\ messageLimit = 2 * PageSize
    /\ Len(activeMessages) = messageLimit
    /\ Len(allMessages) > messageLimit

(***************************************************************************)
(*                MANUAL RETRY: specification and claims                   *)
(***************************************************************************)

NextRetry ==
    \/ Receive("c1", "A", "b1")
    \/ Quiet /\ Poll
    \/ Quiet /\ SelectContact("c1")
    \/ ChatEffects
    \/ AutoCreateEffect
    \/ \E r \in FetchReads(<<account, autoCreate.contact>>) :
           r.object = "ok" /\ r.structured = "found" /\ CheckReturns(r)
    \/ DecryptEffect
    \/ \E op \in decrypts : \E outcome \in DecryptOutcomes(op) : DecryptSettles(op, outcome)
    \/ Quiet /\ retryDownload(<<"msg", "b1">>)
    \/ \E op \in decrypts, ok \in BOOLEAN : RetrySettles(op, ok)

SpecRetry == InitCacheSpec /\ [][NextRetry]_vars

\* C37: what decryptedMessages holds for a message of the chain is the
\* output of a successful decryption of its blob or one of the failure and
\* placeholder texts, never the downloaded ciphertext, also after a retry.
C37_NoCiphertextAsPlaintext ==
    \A e \in decryptedMessages :
        e.value \in {"text", "decrypt-failed", "load-failed", "locked"}

(***************************************************************************)
(*             SCOPE-CREATION EVENTS: specification and claims             *)
(***************************************************************************)

NextScope ==
    \/ ChatEffects
    \/ DecryptEffect
    \/ AutoCreateEffect
    \/ \E c \in Contacts : Settled /\ SelectContact(c)
    \/ \E c \in Contacts : PeerCreates(c)
    \/ \E r \in FetchReads(<<account, autoCreate.contact>>) : Settled /\ CheckReturns(r)
    \/ \E i \in 1..MaxTxs, outcome \in SettleOutcomes : Settled /\ WalletSettles(i, outcome)
    \/ \E visible \in SUBSET Contacts : Settled /\ PollChatEvents(visible)

SpecScope == InitSendSpec /\ [][NextScope]_vars

\* C36: while the account stays the same, a chat id that chatIds holds for a
\* contact stays there unchanged, whatever a later poll of the ChatCreated
\* events returns.
C36_LearntScopeStays ==
    [][account' = account =>
          \A c \in Contacts : chatIds[c] # NoScope => chatIds'[c] = chatIds[c]]_vars

(***************************************************************************)
(*                 READ RECEIPTS: specification and claims                 *)
(***************************************************************************)

NextRead ==
    \/ ChatEffects
    \/ DecryptEffect
    \/ AutoCreateEffect
    \/ Quiet /\ SelectContact("c1")
    \/ \E r \in FetchReads(<<account, autoCreate.contact>>) :
           r.object = "ok" /\ r.structured = "found" /\ CheckReturns(r)
    \/ MessageOwned
    \/ \E id \in SentIds : PeerReads(id)
    \/ PollReadEvents
    \/ ProcessReadEvents
    \/ markMessagesAsRead
    \/ \E ok \in BOOLEAN : MarkSettles(ok)

SpecRead == InitCacheSpec /\ [][NextRead]_vars

\* C34: every id of readMessageIds is one the chain has marked read (it came
\* from a polled read event, or from a mark-as-read transaction that was
\* executed), no id ever leaves the set, and the Process Read Events effect
\* run again on the same poll changes nothing.
C34_OnlyAcknowledgedReads ==
    [][/\ readMessageIds' \subseteq chainRead'
       /\ readMessageIds \subseteq readMessageIds'
       /\ (readEvents' = readEvents /\ readEvents \subseteq readMessageIds
             /\ markOp' = markOp) => readMessageIds' = readMessageIds]_vars

(***************************************************************************)
(*                 SEAL SESSION: specification and claims                  *)
(***************************************************************************)

NextSession ==
    \/ \E importThrows \in BOOLEAN : RunEffects(importThrows)
    \/ \E outcome \in CreationOutcomes : CreationSettles(outcome)
    \/ UnlockClick
    \/ \E minutes \in TTL_OPTIONS : TTLConfirm(minutes)
    \/ \E minutes \in TTL_OPTIONS : SettingsSave(minutes)
    \/ EndSession
    \/ DisconnectClick
    \/ \E a \in Accounts \cup {NoItem} : SetAccount(a)
    \/ Rerender
    \/ Tick
    \/ Reload

InitSessionSpec ==
    /\ InitSession /\ IdleStore /\ IdleKey /\ IdleCrypto /\ IdleChat
    /\ IdleScope /\ IdleCache /\ IdleView

SpecSession == InitSessionSpec /\ [][NextSession]_vars

\* The page left to itself: its effects, the outcomes of its calls, the clock,
\* the reload its own timer makes, and what the wallet does (connect, switch,
\* disconnect); no click on Unlock, Restart Session, End Session or the TTL
\* dialogs.  React runs the effects of every commit, every signature request
\* gets its answer (approval, refusal or an error), an armed timer fires.
NextUnattended ==
    \/ \E importThrows \in BOOLEAN : RunEffects(importThrows)
    \/ \E outcome \in CreationOutcomes : CreationSettles(outcome)
    \/ DisconnectClick
    \/ \E a \in Accounts \cup {NoItem} : SetAccount(a)
    \/ Tick
    \/ reloadTimer /\ Reload

SpecSessionFair ==
    /\ InitSessionSpec /\ [][NextUnattended]_vars
    /\ WF_vars(\E importThrows \in BOOLEAN : RunEffects(importThrows))
    /\ WF_vars(\E outcome \in CreationOutcomes : CreationSettles(outcome))
    /\ WF_vars(reloadTimer /\ Reload)

\* The record in storage is one loadSession would make the active session.
ValidPersisted == storedSession.kind = "token" /\ ~isExpired(storedSession, now)

\* The commit in which a has just become connected (its load effect is due).
JustConnected(a) == account = a /\ "load" \in fx

LoadRuns ==
    /\ "load" \in fx /\ account # NoItem
    /\ \E importThrows \in BOOLEAN : RunEffects(importThrows)

\* C8: when loadSession runs for a connected account on a persisted token
\* with creationTime + ttl < now, then afterwards there is no session (the
\* session key is null and the hook is not ready) and no persisted token.
C8_ExpiredTokenPurged ==
    [][(/\ LoadRuns
        /\ storedSession.kind = "token"
        /\ storedSession.creationTimeMs + storedSession.ttlMin < now)
       => (sessionKey' = NoToken /\ ~isReady' /\ storedSession' = NoToken)]_vars

\* loadSession has found the expired token (its error message is set) and
\* left neither a session nor a record.
C8_Witness ==
    /\ account # NoItem /\ error = "expired" /\ now > SessionTtl
    /\ sessionKey = NoToken /\ ~isReady /\ storedSession = NoToken

\* C9: when loadSession runs on a record that cannot be parsed or imported,
\* then afterwards there is no session and the record is gone from storage.
C9_InvalidRecordPurged ==
    [][(LoadRuns /\ storedSession.kind \in {"malformed", "null", "invalid"})
       => (sessionKey' = NoToken /\ ~isReady' /\ storedSession' = NoToken)]_vars

\* The part of C9 the code does keep: a record that parses but that
\* SessionKey.import rejects is removed, and no session results.
C9_ImportFailurePurged ==
    [][(LoadRuns /\ storedSession.kind = "invalid")
       => (sessionKey' = NoToken /\ ~isReady' /\ storedSession' = NoToken)]_vars

\* C10: at most one creation is pending, and no creation is one that a
\* trigger handled during an earlier pending creation has left to run.
C10_OnePendingNoneQueued ==
    /\ Len(pending) <= 1
    /\ \A i \in 1..Len(pending) : ~pending[i].queued

\* The first half of C10 alone: never two creations in flight.
C10_OneInFlight == Len(pending) <= 1

\* The session is Active: the hook reports it ready and hands out a key.
Active == isReady /\ sessionKey # NoToken

\* C11: once the effects of a commit have run, the in-memory session key,
\* when there is one, was created for the connected account.
C11_SessionBelongsToAccount ==
    (fx = {} /\ sessionKey # NoToken) => sessionKey.address = account

\* C13: a session that is reported ready has not passed its expiry
\* (creationTime + ttl), whether it was restored or is held in memory.
C13_ActiveOnlyWhileUnexpired ==
    (fx = {} /\ Active) => now <= sessionKey.creationTimeMs + sessionKey.ttlMin

\* A creation ends with the session (the signer has signed).
CreationWithSignature == pending # <<>> /\ CreationSettles(CreationDone)

\* loadSession restores a persisted token that has not expired.
RestoreUnexpired ==
    /\ LoadRuns
    /\ storedSession.kind = "token"
    /\ now <= storedSession.creationTimeMs + storedSession.ttlMin
    /\ sessionKey' = storedSession

\* C14: every step that makes the session Active is the completion of a
\* pending creation with the signer's signature, or the restore of an
\* unexpired persisted token.
C14_ActiveOnlyByCreationOrRestore ==
    [][(~Active /\ Active') => (CreationWithSignature \/ RestoreUnexpired)]_vars

\* A session became Active by a creation of this page, for the connected
\* account (its creation time is later than any token of the start).
C14_Witness ==
    /\ Active /\ fx = {}
    /\ attemptRef = account /\ sessionKey.address = account
    /\ sessionKey.creationTimeMs > 0 /\ storedSession = sessionKey

\* C15: after refresh (End Session, or Disconnect with a session) the
\* persisted token is gone, there is no session key, the hook is not ready,
\* and the ledger is as it was.
C15_InvalidateClears ==
    [][(EndSession \/ DisconnectClick)
       => (/\ storedSession' = NoToken /\ sessionKey' = NoToken /\ ~isReady'
           /\ ledger' = ledger)]_vars

\* The user has ended a session that was Active: nothing of it is left.
C15_Witness ==
    /\ userEndedSession /\ hasHadSession /\ fx = {}
    /\ storedSession = NoToken /\ sessionKey = NoToken /\ ~isReady

\* C16: when a creation fails, the error shown is the rejection exactly
\* when the signer declined; no token is persisted, the session key is as
\* it was (none), and isCreatingSession is false again.
C16_FailureClassified ==
    [][\A outcome \in CreationOutcomes :
          (~outcome.ok /\ CreationSettles(outcome))
          => (/\ sealError' = (IF outcome.declined THEN "rejected" ELSE "failed")
              /\ storedSession' = storedSession /\ sessionKey' = sessionKey
              /\ ~isCreatingSession')]_vars

\* C16, the part that holds: a failed creation persists nothing, leaves the
\* session key as it was and leaves the Pending state.
C16_FailureLeavesNoSession ==
    [][\A outcome \in CreationOutcomes :
          (~outcome.ok /\ CreationSettles(outcome))
          => (/\ storedSession' = storedSession /\ sessionKey' = sessionKey
              /\ ~isCreatingSession')]_vars

\* initSession gets past its guards on this render.
Attempt ==
    /\ "init" \in fx /\ InitSessionGuard /\ attemptRef # account
    /\ \E importThrows \in BOOLEAN : RunEffects(importThrows)

\* C38: a creation (a signature request) starts only when the user has not
\* ended the session and no attempt is on record for the connected account,
\* and the click that cleared the record (Unlock, Restart Session, the TTL
\* confirmation) was not made before the failure of the attempt it follows.
C38_NoPromptWithoutUserAction ==
    [][Len(pending') > Len(pending)
          => (~userEndedSession /\ attemptRef # account /\ ~lateTrigger)]_vars

\* C17: a creation is started only with a TTL preference in storage; an
\* attempt without one shows the TTL selector and starts nothing.
C17_CreationNeedsPreference ==
    [][/\ (Len(pending') > Len(pending)) => ttlPref # NoPref
       /\ (Attempt /\ ttlPref = NoPref) => (showTTLSelector' /\ pending' = pending)]_vars

\* An attempt was made without a preference: the selector is shown and no
\* creation has been started.
C17_Witness ==
    /\ account # NoItem /\ ttlPref = NoPref
    /\ showTTLSelector /\ hasHadSession /\ attemptRef = NoItem
    /\ pending = <<>> /\ ~isCreatingSession /\ fx = {}

\* C18: the token a creation yields carries the TTL preference that was
\* stored when the creation started.
C18_TokenCarriesPreference ==
    [][CreationWithSignature => sessionKey'.ttlMin = pending[1].pref]_vars

(***************************************************************************)
(*              REGISTRY LOOKUP KEY: specification and claims              *)
(***************************************************************************)

NextKey == \E i \in {1, 2} : FetchChatIdKey(i)

InitKeySpec ==
    /\ InitKey /\ IdleStore /\ IdleCrypto /\ IdleSession /\ IdleChat
    /\ IdleScope /\ IdleCache /\ IdleView

SpecKey == InitKeySpec /\ [][NextKey]_vars

\* C7: the lookup key is symmetric: the key derived with a local and b the
\* contact equals the key derived with b local and a the contact, in both
\* of its forms, for every pair of addresses (equal ones included).
C7_LookupKeySymmetric ==
    (keyOut[1] # NoKey /\ keyOut[2] # NoKey) => keyOut[1] = keyOut[2]

\* Both sides have derived the key of two different identities, and the side
\* whose own address is the larger one has put the contact first.
C7_Witness ==
    /\ keyOut[1] # NoKey /\ keyOut[2] # NoKey
    /\ fromHex(normalizeSuiAddress(keyIn[1])) # fromHex(normalizeSuiAddress(keyIn[2]))
    /\ keyOut[1].sorted = <<normalizeSuiAddress(keyIn[2]), normalizeSuiAddress(keyIn[1])>>
    /\ Len(keyOut[1].keyArray) = 1 + 2 * AddrBytes

(***************************************************************************)
(*            ENCRYPT / DECRYPT PIPELINE: specification and claims         *)
(***************************************************************************)

InitCryptoSpec ==
    /\ InitCrypto /\ IdleStore /\ IdleKey /\ IdleSession /\ IdleChat
    /\ IdleScope /\ IdleCache /\ IdleView

SpecCrypto == InitCryptoSpec /\ [][NextCrypto]_vars

\* C26: the request encryptMessage hands to the Seal client has the
\* plaintext hash as its id and the scope as its namespace (packageId).
C26_RequestBindsHashAndScope ==
    encOut # <<>> =>
        LET h == calculateContentHash(encIn.content)
            request == EncryptRequest(encIn.content, encIn.scopeId, h)
        IN /\ request.id = toHEX(h)
           /\ request.packageId = normalizeSuiAddress(encIn.scopeId)

\* C6: round trip.  For every plaintext and scope, decrypting what
\* encryptMessage produced, with the hash of the plaintext, a valid session
\* and approving key servers, returns the plaintext, in both roles.
C6_RoundTrip ==
    \A r \in Roles :
        (decOut[r].done /\ decOut[r].valid) =>
            decOut[r].returned.ok /\ decOut[r].returned.text = encIn.content

\* The round trip does hold for a text without a leading byte order mark and
\* without lone surrogates (multi-byte characters and pairs included).
C6_RoundTripWellFormed ==
    \A r \in Roles :
        (/\ decOut[r].done /\ decOut[r].valid
         /\ FromCodePoints(ToCodePoints(encIn.content)) = encIn.content
         /\ (encIn.content = <<>> \/ encIn.content[1] # 65279)) =>
            decOut[r].returned.ok /\ decOut[r].returned.text = encIn.content

(***************************************************************************)
(*                 CONTENT STORE: specification and claims                 *)
(***************************************************************************)

NextStore ==
    \/ \E g \in GetCalls, b \in BlobIds : DownloadStart(g, b)
    \/ \E g \in GetCalls, o \in Outcomes, c \in Contents : DownloadResponse(g, o, c)
    \/ \E b \in BlobIds : UploadToWalrus("x", b, TRUE)

\* The uploads of every content, with the downloads of one call.
NextPut ==
    \/ \E b \in BlobIds : DownloadStart("g1", b)
    \/ \E o \in Outcomes, c \in Contents : DownloadResponse("g1", o, c)
    \/ \E c \in Contents, b \in BlobIds, ok \in BOOLEAN : UploadToWalrus(c, b, ok)

InitStore ==
    /\ IdleStore /\ IdleKey /\ IdleCrypto /\ IdleSession /\ IdleChat
    /\ IdleScope /\ IdleCache /\ IdleView

SpecStore == InitStore /\ [][NextStore]_vars
SpecPut == InitStore /\ [][NextPut]_vars

\* C33: a call of downloadFromWalrus has at most one fetch outstanding: the
\* aggregators it has contacted are those that failed, in priority order,
\* and the one after them; this also when another call, for another blob
\* id, is under way, and each call returns what its own first successful
\* aggregator served.
C33_OneEndpointAtATime ==
    \A g \in GetCalls :
        LET r == gets[g] IN
        /\ r.pc = "fetching" =>
              /\ r.failed = 1..(r.idx - 1)
              /\ r.invoked = r.failed \cup {r.idx}
              /\ r.result = NoItem
        /\ (r.pc = "returned" /\ r.servedAt > 0) =>
              /\ r.failed = 1..(r.servedAt - 1)
              /\ r.invoked = r.failed \cup {r.servedAt}
              /\ r.result = r.served
        /\ r.pc = "thrown" => r.failed = Aggregators /\ r.invoked = Aggregators

\* Two calls for different blob ids under way at once: one awaits its second
\* aggregator after an error of the first, the other its third after two
\* clean not-found answers.
C33_Witness ==
    /\ gets["g1"].blobId # gets["g2"].blobId
    /\ gets["g1"].pc = "fetching" /\ gets["g1"].idx = 2 /\ gets["g1"].unclean
    /\ gets["g2"].pc = "fetching" /\ gets["g2"].idx = 3 /\ ~gets["g2"].unclean

\* A step of uploadToWalrus that returned a blob id.
C32_PutReturned == gets' = gets /\ put'.pc = "returned"
\* No entry of the cache is longer than the bound.
C32_NoLongEntry ==
    \A b \in BlobIds :
        walrusCache[b] # NoItem => ContentLen(walrusCache[b]) <= CacheLimit

\* C32: after uploadToWalrus has returned blob id c for content b, the cache
\* maps c to b if and only if the length of b is at most 500000; and no
\* entry of the cache, written by an upload or a download, is longer.
C32_CachedIffWithinBound ==
    [][/\ C32_PutReturned =>
            (walrusCache'[put'.blobId] = put'.content
                <=> ContentLen(put'.content) <= CacheLimit)
       /\ C32_NoLongEntry']_vars

\* C32 as amended: the cache maps c to b only if b is within the bound, and
\* does whenever b is within the bound and the storage took the write.
C32_CachedWithinBoundWhenStored ==
    [][/\ C32_PutReturned =>
            /\ walrusCache'[put'.blobId] = put'.content
                   => ContentLen(put'.content) <= CacheLimit
            /\ (ContentLen(put'.content) <= CacheLimit /\ put'.accepted)
                   => walrusCache'[put'.blobId] = put'.content
       /\ C32_NoLongEntry']_vars

\* An upload within the bound that the storage refused has returned, while
\* the cache holds an entry and a download above the bound has returned.
C32_Witness ==
    /\ put.pc = "returned" /\ ContentLen(put.content) <= CacheLimit
    /\ ~put.accepted /\ walrusCache[put.blobId] # put.content
    /\ \E b \in BlobIds : walrusCache[b] # NoItem
    /\ gets["g1"].pc = "returned" /\ gets["g1"].served = "XL"

\* C1: on a cache miss, when aggregators 1..M fail and aggregator M+1
\* succeeds, downloadFromWalrus returns exactly the content aggregator M+1
\* served, and the aggregators it has invoked are exactly 1..M+1 (it probes
\* in priority order and none after the first success).
C1_FirstSuccessNoOverFetch ==
    \A g \in GetCalls :
        /\ gets[g].pc = "fetching" => gets[g].invoked = 1..gets[g].idx
        /\ (gets[g].pc = "returned" /\ gets[g].servedAt > 0) =>
              /\ gets[g].result = gets[g].served
              /\ gets[g].invoked = 1..gets[g].servedAt

\* A call that missed the cache, saw aggregators 1 and 2 fail and got the
\* content from aggregator 3.
C1_Witness ==
    \E g \in GetCalls :
        /\ gets[g].pc = "returned"
        /\ gets[g].servedAt = 3
        /\ gets[g].result = "y"

\* C2: when no aggregator succeeds, downloadFromWalrus throws "Content not
\* found" exactly when every aggregator answered a clean 404; when at least
\* one aggregator failed in another way (thrown error, other status), at any
\* position, it throws a different error.
C2_NotFoundVsUnavailable ==
    \A g \in GetCalls :
        gets[g].pc = "thrown" =>
            /\ gets[g].invoked = Aggregators
            /\ (~gets[g].unclean) <=> (gets[g].error = ContentNotFoundError)

\* Both failures happen: one call ended with "Content not found", another
\* with a non-404 status at the first aggregator and 404 from all the others.
C2_Witness ==
    \E g, h \in GetCalls :
        /\ gets[g].pc = "thrown" /\ gets[g].error = ContentNotFoundError
        /\ gets[h].pc = "thrown" /\ gets[h].error = AllFailedError

=============================================================================
